---- MODULE Spec2Model ----
(***************************************************************************)
(* Model of the infrahub_sdk client (src/infrahub_sdk/client.py).          *)
(*                                                                         *)
(* Part 1 (SpecQuery): the paginated fetch-and-hydrate loop of filters(),  *)
(* all() and get().  The asynchronous and the synchronous client have the  *)
(* same code line for line (client.py 429-485 / 1895-1951 and 638-736 /    *)
(* 1687-1785), so one state machine stands for both.                       *)
(*                                                                         *)
(* Part 2 (SpecTransport): execute_graphql with the login / relogin /      *)
(* retry wrapper around _post.                                             *)
(***************************************************************************)
EXTENDS Integers, Sequences, FiniteSets, TLC

\* ------------------------------------------------------------------ bounds
MaxPageSize == 2
MaxItems == 4
MaxGetItems == 3
MaxArg == 1
MaxErrors == 2
MaxAttempts == 3
MaxTasks == 3
MaxConcurrent == 2
MaxStoreItems == 2
MaxChildren == 2
MaxElements == 2

\* Python's None for the optional int arguments offset / limit.
None == -1

\* Node ids the server may hand out; two ids are enough to make duplicates.
NodeIds == {1, 2}

\* The empty id (node.id is falsy) and the absence of a related peer.
EmptyId == 0
NoPeer == None

\* Ids for the calls that fill the store: the empty id, an id that is also a
\* peer and one that is not; peers: none, the empty id, an id that is also a
\* primary node's and one that is not.
StoreNodeIds == {EmptyId, 1, 2}
StorePeerIds == {NoPeer, EmptyId, 1, 3}

VARIABLES
    \* ---- client configuration and long-lived client state
    pagination_size,      \* BaseClient.pagination_size
    schemaCached,         \* the (kind, branch) schema is in client.schema's cache
    \* ---- the server side of one call
    srvItems,             \* the nodes matching the call's filters, in server order
    \* ---- one filters()/all()/get() call
    qpc,                  \* position of the call
    callName,             \* "filters" | "all" | "get" | "none"
    offset, limit,        \* the caller's offset / limit (None when not passed)
    raise_when_missing,   \* get(raise_when_missing=...)
    getArgs,              \* what get() was given: [id, hfid, kwargs]
    schemaDesc,           \* [default_filter, human_friendly_id] of the schema
    filterKeys,           \* keys of the filter set get() hands to filters()
    nodes,                \* filters(): the local list `nodes`
    page_number,          \* filters(): page_number
    has_remaining_items,  \* filters(): has_remaining_items
    queries,              \* history: <<offset, limit>> of every page query sent
    pages,                \* history: the edges of every page response received
    schemaFetches,        \* history: schema requests sent during this call
    results,              \* what filters() returned
    qOutcome,             \* how the call ended
    qValue                \* the value the call returned

qvars == <<pagination_size, schemaCached, srvItems, qpc, callName, offset, limit,
           raise_when_missing, getArgs, schemaDesc, filterKeys, nodes, page_number,
           has_remaining_items, queries, pages, schemaFetches, results, qOutcome,
           qValue>>

VARIABLES
    \* ---- client configuration and long-lived client state
    retry_on_failure,         \* BaseClient.retry_on_failure
    password_authentication,  \* Config.password_authentication
    access_token,             \* BaseClient.access_token is non-empty
    refresh_token,            \* BaseClient.refresh_token is non-empty
    \* ---- one execute_graphql() call
    tpc,                      \* position of the call
    raise_for_error,          \* execute_graphql(raise_for_error=...)
    retry,                    \* execute_graphql: the local `retry`
    resp,                     \* execute_graphql: the local `resp`
    response,                 \* handle_relogin wrapper: the local `response`
    phase,                    \* wrapper: 1 = first call of _post, 2 = the replay
    exc,                      \* the exception in flight
    firstResponse,            \* history: the answer to the first send of this iteration
    sawUnreachable,           \* history: a request of this call met httpx.NetworkError
    sawTimeout,               \* history: a request of this call met httpx.ReadTimeout
    attempts,                 \* history: iterations of the while loop started
    attemptSends,             \* history: sends of the request in this iteration
    attemptRelogins,          \* history: login(refresh=True) calls in this iteration
    repeatCause,              \* history: why the loop body was last left by an exception
    tOutcome,                 \* how the call ended
    tErrors                   \* what the raised error carries

tvars == <<retry_on_failure, password_authentication, access_token, refresh_token, tpc,
           raise_for_error, retry, resp, response, phase, exc, firstResponse,
           sawUnreachable, sawTimeout, attempts, attemptSends, attemptRelogins,
           repeatCause, tOutcome, tErrors>>

VARIABLES
    \* ---- the asynchronous client's batch runner (create_batch)
    max_concurrent_execution, \* BaseClient.max_concurrent_execution
    semaphores,               \* free permits of every asyncio.Semaphore
    batches,                  \* the InfrahubBatch objects created so far
    \* ---- the synchronous client's create_batch
    syncCalls,                \* history: the last InfrahubClientSync.create_batch call
    syncOutcome,              \* how the last of them ended
    syncBatches               \* history: batches handed out by the synchronous client

bvars == <<max_concurrent_execution, semaphores, batches, syncCalls, syncOutcome, syncBatches>>

VARIABLES
    \* ---- the node store and what filters() needs to fill it
    store,                    \* client.store: the entries [key, node] it holds
    storeAtCall,              \* history: the store when the call started
    populate_store,           \* filters(populate_store=...)
    prefetch_relationships,   \* filters(prefetch_relationships=...)
    srvPeers,                 \* server: the related peer of every matching node
    related_nodes             \* filters(): the local list `related_nodes`

svars == <<store, storeAtCall, populate_store, prefetch_relationships, srvPeers,
           related_nodes>>

VARIABLES
    \* ---- one load of a record by the object loader (spec/object.py)
    lpc,                      \* position of the load
    lschema,                  \* the schema create_node was given for the record
    lpeer,                    \* the schema of the relationship's peer kind
    ldata,                    \* the record
    frame,                    \* which create_node runs: "parent" or "child"
    childIdx,                 \* position of the nested record being created
    clean_data,               \* create_node: the local `clean_data`
    remaining_rels,           \* create_node: the local `remaining_rels`
    lcontext,                 \* create_node: the `context` made for nested records
    parentNodeId,             \* node.id of the saved parent
    creates,                  \* history: payloads of the nodes saved, in order
    peerSchemaGets,           \* history: client.schema.get calls for the peer kind
    callsAtEntry,             \* history: network calls made when this create_node began
    lOutcome,                 \* how the load ended
    lError                    \* which statement raised

lvars == <<lpc, lschema, lpeer, ldata, frame, childIdx, clean_data, remaining_rels,
           lcontext, parentNodeId, creates, peerSchemaGets, callsAtEntry, lOutcome, lError>>

VARIABLES
    \* ---- one conversion of a DiffTree node (diff.py)
    dpc,                      \* position of the conversion
    node_dict,                \* the node of the DiffTree response
    node_diff                 \* the NodeDiff computed from it

dvars == <<dpc, node_dict, node_diff>>

VARIABLES
    \* ---- an InfrahubClient and an InfrahubClientSync given the same calls
    aclient,                  \* the asynchronous client and its running call
    sclient                   \* the synchronous client and its running call

wvars == <<aclient, sclient>>

VARIABLES
    \* ---- one run of `infrahubctl transform` (ctl/cli_commands.py)
    cpc,                      \* position of the command
    cmd,                      \* the command line and what the run will meet
    cexc,                     \* the exception that left transform()
    exit_code,                \* the exit code of the process (None while it runs)
    responseObtained,         \* history: the response of the query was obtained
    transformRan              \* history: transform() ran on that response

cvars == <<cpc, cmd, cexc, exit_code, responseObtained, transformRan>>

VARIABLES
    \* ---- one run of `infrahubctl object load` (ctl/object.py, spec/object.py)
    opc,                      \* position of the run
    ofile,                    \* the records of the file, nested ones included
    ostack,                   \* the loops that are running, the innermost last
    current,                  \* the record create_node is running on
    saved,                    \* history: the records whose node was saved, in order
    attempted,                \* history: the records create_node was called on, in order
    failedAt,                 \* history: the record whose create_node raised
    oOutcome                  \* how the run ended, and which statement raised

ovars == <<opc, ofile, ostack, current, saved, attempted, failedAt, oOutcome>>

vars == <<qvars, tvars, bvars, svars, lvars, dvars, wvars, cvars, ovars>>

\* What an action of one part leaves alone: the variables of the other parts.
exceptQuery == <<tvars, bvars, lvars, dvars, wvars, cvars, ovars>>
exceptTransport == <<qvars, bvars, svars, lvars, dvars, wvars, cvars, ovars>>
exceptBatch == <<qvars, tvars, svars, lvars, dvars, wvars, cvars, ovars>>
exceptLoader == <<qvars, tvars, bvars, svars, dvars, wvars, cvars, ovars>>
exceptDiff == <<qvars, tvars, bvars, svars, lvars, wvars, cvars, ovars>>
exceptTwin == <<qvars, tvars, bvars, svars, lvars, dvars, cvars, ovars>>
exceptCtl == <<qvars, tvars, bvars, svars, lvars, dvars, wvars, ovars>>
exceptObjectLoad == <<qvars, tvars, bvars, svars, lvars, dvars, wvars, cvars>>

\* ----------------------------------------------------------------- helpers
Min(a, b) == IF a < b THEN a ELSE b

\* Python's `x or y` on an Optional[int]: None and 0 are both falsy.
OrElse(x, y) == IF x = None \/ x = 0 THEN y ELSE x

\* All sequences over S of length 0..n.
SeqsUpTo(S, n) == UNION {[1..k -> S] : k \in 0..n}

RECURSIVE Flatten(_)
Flatten(ss) == IF ss = <<>> THEN <<>> ELSE Head(ss) \o Flatten(Tail(ss))

\* ------------------------------------------------------------ server side
\* The GraphQL answer to a page query: `count` is the total number of
\* matching nodes, `edges` the window [offset, offset + limit) of them.
ServerPage(o, l) ==
    [count |-> Len(srvItems),
     edges |-> [i \in 1..(Min(o + l, Len(srvItems)) - Min(o, Len(srvItems))) |->
                   [node |-> [id |-> srvItems[Min(o, Len(srvItems)) + i],
                              peer |-> srvPeers[Min(o, Len(srvItems)) + i]]]]]

\* InfrahubNode.from_graphql: the node object built from one edge.
FromGraphql(edge) == [id |-> edge.node.id, hydrated |-> TRUE, via |-> "edge"]

\* InfrahubNode.from_graphql on the peer data of an edge: a related node.
FromGraphqlPeer(edge) == [id |-> edge.node.peer, hydrated |-> TRUE, via |-> "peer"]

\* _process_nodes_and_relationships: one node per edge, in edge order.
ProcessNodes(page) == [i \in 1..Len(page.edges) |-> FromGraphql(page.edges[i])]

\* node._process_relationships over the edges of a page: one related node per
\* edge that has a peer, in edge order; nothing without prefetch_relationships.
RECURSIVE ProcessRelationships(_, _)
ProcessRelationships(edges, prefetch) ==
    IF ~prefetch \/ edges = <<>> THEN <<>>
    ELSE (IF Head(edges).node.peer = NoPeer THEN <<>> ELSE <<FromGraphqlPeer(Head(edges))>>)
         \o ProcessRelationships(Tail(edges), prefetch)

\* NodeStore.set(key, node): the entry of that key is replaced.
StoreSet(st, key, node) == {e \in st : e.key # key} \cup {[key |-> key, node |-> node]}

\* for node in ns: if node.id: self.store.set(key=node.id, node=node)
RECURSIVE StoreAll(_, _)
StoreAll(st, ns) ==
    IF ns = <<>> THEN st
    ELSE StoreAll(IF Head(ns).id # EmptyId THEN StoreSet(st, Head(ns).id, Head(ns)) ELSE st,
                  Tail(ns))

\* list(set(ns)): the distinct nodes of ns.  The order of a set is not fixed,
\* but distinct related nodes have distinct ids, so the store they are written
\* to ends the same in every order; the order of first occurrence is taken.
RECURSIVE Distinct(_)
Distinct(ns) ==
    IF ns = <<>> THEN <<>>
    ELSE LET front == Distinct(SubSeq(ns, 1, Len(ns) - 1))
         IN  IF \E i \in 1..Len(front) : front[i] = ns[Len(ns)] THEN front
             ELSE Append(front, ns[Len(ns)])

\* A populate step that leaves alone a key the store already holds.
PopulateStoreKeepFirst(st, ns, rel) ==
    LET keep(s, xs) == SelectSeq(xs, LAMBDA n : \A e \in s : e.key # n.id)
        first == StoreAll(st, keep(st, ns))
    IN  StoreAll(first, keep(first, Distinct(rel)))

\* filters(), lines 727-734: the primary nodes, then the distinct related
\* nodes, are written to the store under their ids.
PopulateStore(st, ns, rel) == StoreAll(StoreAll(st, ns), Distinct(rel))

\* A return that fills the store whatever populate_store says.
StoreAtReturnAlways(populate, st, ns, rel) == PopulateStore(st, ns, rel)

\* filters(), lines 727-734: `if populate_store:` guards the populate step.
StoreAtReturn(populate, st, ns, rel) == IF populate THEN PopulateStore(st, ns, rel) ELSE st

\* -------------------------------------------------------- filters(): steps
\* A paging loop that numbers its pages from 0 and so skips the first window.
PageOffsetSkipsFirst(pn) == pn * pagination_size

\* page_offset = (page_number - 1) * self.pagination_size
PageOffset(pn) == (pn - 1) * pagination_size

\* remaining_items = count - (page_offset + self.pagination_size)
RemainingItems(count, po) == count - (po + pagination_size)

\* A stop test that also stops when nothing remains (remaining_items <= 0).
StopPagingAtZero(remaining, off, lim) == remaining <= 0 \/ off # None \/ lim # None

\* A stop test on the truthiness of offset / limit instead of `is not None`.
StopPagingTruthy(remaining, off, lim) ==
    remaining < 0 \/ (off # None /\ off # 0) \/ (lim # None /\ lim # 0)

\* if remaining_items < 0 or offset is not None or limit is not None
StopPaging(remaining, off, lim) == remaining < 0 \/ off # None \/ lim # None

\* get(): the keys of the filter set built from id / hfid / kwargs.
\* id is "none" (None or ""), "uuid" or "name"; the HFID error is handled
\* by the caller of this operator.
BuildFilterKeys(args, schema) ==
    (IF args.id = "none" THEN {}
     ELSE IF args.id = "name" /\ schema.default_filter THEN {"default_filter"}
     ELSE {"ids"})
    \cup (IF args.hfid THEN {"hfid"} ELSE {})
    \cup (IF args.kwargs THEN {"kwargs"} ELSE {})

\* A get() in which raise_when_missing=False also silences the ambiguity error.
GetResultLenient(res, rwm) ==
    IF Len(res) = 0 /\ rwm THEN [outcome |-> "NodeNotFoundError", value |-> <<>>]
    ELSE IF Len(res) = 0 /\ ~rwm THEN [outcome |-> "returned", value |-> <<>>]
    ELSE IF Len(res) > 1 /\ rwm THEN [outcome |-> "IndexError", value |-> <<>>]
    ELSE [outcome |-> "returned", value |-> <<res[1]>>]

\* get(): the result computed from the list filters() returned.
GetResult(res, rwm) ==
    IF Len(res) = 0 /\ rwm THEN [outcome |-> "NodeNotFoundError", value |-> <<>>]
    ELSE IF Len(res) = 0 /\ ~rwm THEN [outcome |-> "returned", value |-> <<>>]
    ELSE IF Len(res) > 1 THEN [outcome |-> "IndexError", value |-> <<>>]
    ELSE [outcome |-> "returned", value |-> <<res[1]>>]

NoArgs == [id |-> "none", hfid |-> FALSE, kwargs |-> FALSE]
NoSchema == [default_filter |-> FALSE, human_friendly_id |-> FALSE]

QInit ==
    /\ pagination_size \in 1..MaxPageSize
    /\ schemaCached = FALSE
    /\ srvItems = <<>>
    /\ qpc = "idle"
    /\ callName = "none"
    /\ offset = None /\ limit = None
    /\ raise_when_missing = TRUE
    /\ getArgs = NoArgs
    /\ schemaDesc = NoSchema
    /\ filterKeys = {}
    /\ nodes = <<>>
    /\ page_number = 1
    /\ has_remaining_items = TRUE
    /\ queries = <<>>
    /\ pages = <<>>
    /\ schemaFetches = 0
    /\ results = <<>>
    /\ qOutcome = "none"
    /\ qValue = <<>>

\* client.store = NodeStore() (line 274): empty; no call is running.
SInit ==
    /\ store = {}
    /\ storeAtCall = {}
    /\ populate_store = FALSE
    /\ prefetch_relationships = FALSE
    /\ srvPeers = <<>>
    /\ related_nodes = <<>>

\* A call that does not ask for the store or for related nodes.
PlainCall(items) ==
    /\ populate_store' = FALSE
    /\ prefetch_relationships' = FALSE
    /\ srvPeers' = [i \in 1..Len(items) |-> NoPeer]
    /\ related_nodes' = <<>>
    /\ storeAtCall' = store
    /\ UNCHANGED store

\* The locals of a call that has not run yet; the schema cache and the
\* configuration outlive the call.
FreshLocals ==
    /\ nodes' = <<>> /\ page_number' = 1 /\ has_remaining_items' = TRUE
    /\ queries' = <<>> /\ pages' = <<>> /\ schemaFetches' = 0
    /\ results' = <<>> /\ qOutcome' = "none" /\ qValue' = <<>>

\* client.filters(kind, offset=..., limit=..., **kwargs)
CallFilters ==
    /\ qpc = "idle"
    /\ \E items \in SeqsUpTo(NodeIds, MaxItems), off \in {None} \cup 0..MaxArg,
          lim \in {None} \cup 0..MaxArg :
        /\ srvItems' = items
        /\ PlainCall(items)
        /\ offset' = off /\ limit' = lim
    /\ callName' = "filters"
    /\ raise_when_missing' = TRUE
    /\ getArgs' = [id |-> "none", hfid |-> FALSE, kwargs |-> TRUE]
    /\ schemaDesc' = NoSchema
    /\ filterKeys' = {"kwargs"}
    /\ FreshLocals
    /\ qpc' = "filters_schema"
    /\ UNCHANGED <<pagination_size, schemaCached>>
    /\ UNCHANGED exceptQuery

\* client.all(kind, offset=..., limit=...): filters() without keyword filters.
CallAll ==
    /\ qpc = "idle"
    /\ \E items \in SeqsUpTo(NodeIds, MaxItems), off \in {None} \cup 0..MaxArg,
          lim \in {None} \cup 0..MaxArg :
        /\ srvItems' = items
        /\ PlainCall(items)
        /\ offset' = off /\ limit' = lim
    /\ callName' = "all"
    /\ raise_when_missing' = TRUE
    /\ getArgs' = NoArgs
    /\ schemaDesc' = NoSchema
    /\ filterKeys' = {}
    /\ FreshLocals
    /\ qpc' = "filters_schema"
    /\ UNCHANGED <<pagination_size, schemaCached>>
    /\ UNCHANGED exceptQuery

\* client.filters(kind, populate_store=True, prefetch_relationships=..., **kwargs)
CallFiltersPopulateStore ==
    /\ qpc = "idle"
    /\ \E items \in SeqsUpTo(StoreNodeIds, MaxStoreItems), pf \in BOOLEAN :
        \E peers \in [1..Len(items) -> StorePeerIds] :
          /\ srvItems' = items
          /\ srvPeers' = peers
          /\ prefetch_relationships' = pf
    /\ populate_store' = TRUE
    /\ related_nodes' = <<>>
    /\ storeAtCall' = store
    /\ offset' = None /\ limit' = None
    /\ callName' = "filters"
    /\ raise_when_missing' = TRUE
    /\ getArgs' = [id |-> "none", hfid |-> FALSE, kwargs |-> TRUE]
    /\ schemaDesc' = NoSchema
    /\ filterKeys' = {"kwargs"}
    /\ FreshLocals
    /\ qpc' = "filters_schema"
    /\ UNCHANGED <<pagination_size, schemaCached, store>>
    /\ UNCHANGED exceptQuery

\* client.filters(kind, populate_store=..., prefetch_relationships=..., **kwargs)
\* with the store asked for or not; the peers are not primary nodes.
CallFiltersStoreOrNot ==
    /\ qpc = "idle"
    /\ \E items \in SeqsUpTo(StoreNodeIds, MaxStoreItems), pf \in BOOLEAN, ps \in BOOLEAN :
        \E peers \in [1..Len(items) -> {NoPeer, 3}] :
          /\ srvItems' = items
          /\ srvPeers' = peers
          /\ prefetch_relationships' = pf
          /\ populate_store' = ps
    /\ related_nodes' = <<>>
    /\ storeAtCall' = store
    /\ offset' = None /\ limit' = None
    /\ callName' = "filters"
    /\ raise_when_missing' = TRUE
    /\ getArgs' = [id |-> "none", hfid |-> FALSE, kwargs |-> TRUE]
    /\ schemaDesc' = NoSchema
    /\ filterKeys' = {"kwargs"}
    /\ FreshLocals
    /\ qpc' = "filters_schema"
    /\ UNCHANGED <<pagination_size, schemaCached, store>>
    /\ UNCHANGED exceptQuery

\* client.get(kind, raise_when_missing=..., id=..., hfid=..., **kwargs)
CallGet ==
    /\ qpc = "idle"
    /\ \E items \in SeqsUpTo(NodeIds, MaxGetItems), rwm \in BOOLEAN,
          id \in {"none", "uuid", "name"}, hf \in BOOLEAN, kw \in BOOLEAN,
          df \in BOOLEAN, sh \in BOOLEAN :
        /\ srvItems' = items
        /\ PlainCall(items)
        /\ raise_when_missing' = rwm
        /\ getArgs' = [id |-> id, hfid |-> hf, kwargs |-> kw]
        /\ schemaDesc' = [default_filter |-> df, human_friendly_id |-> sh]
    /\ callName' = "get"
    /\ offset' = None /\ limit' = None
    /\ filterKeys' = {}
    /\ FreshLocals
    /\ qpc' = "get_schema"
    /\ UNCHANGED <<pagination_size, schemaCached>>
    /\ UNCHANGED exceptQuery

\* self.schema.get(kind=kind, branch=branch): answered from the cache, or
\* fetched from the server (one request) and cached.
SchemaGet ==
    /\ schemaFetches' = IF schemaCached THEN schemaFetches ELSE schemaFetches + 1
    /\ schemaCached' = TRUE

\* get(), line 446: resolve the schema.
GetSchema ==
    /\ qpc = "get_schema"
    /\ SchemaGet
    /\ qpc' = "get_filters"
    /\ UNCHANGED <<pagination_size, srvItems, callName, offset, limit, raise_when_missing,
                   getArgs, schemaDesc, filterKeys, nodes, page_number, has_remaining_items,
                   queries, pages, results, qOutcome, qValue>>
    /\ UNCHANGED svars
    /\ UNCHANGED exceptQuery

\* get(), lines 448-463: build the filter set, reject an HFID lookup on a
\* schema without HFID and reject the empty filter set.
GetBuildFilters ==
    /\ qpc = "get_filters"
    /\ IF getArgs.hfid /\ ~schemaDesc.human_friendly_id
       THEN /\ qOutcome' = "ValueError" /\ qpc' = "done" /\ UNCHANGED filterKeys
       ELSE /\ filterKeys' = BuildFilterKeys(getArgs, schemaDesc)
            /\ IF Cardinality(filterKeys') = 0
               THEN qOutcome' = "ValueError" /\ qpc' = "done"
               ELSE qOutcome' = qOutcome /\ qpc' = "filters_schema"
    /\ UNCHANGED <<pagination_size, schemaCached, srvItems, callName, offset, limit,
                   raise_when_missing, getArgs, schemaDesc, nodes, page_number,
                   has_remaining_items, queries, pages, schemaFetches, results, qValue>>
    /\ UNCHANGED svars
    /\ UNCHANGED exceptQuery

\* filters(), line 674: resolve the schema.
FiltersSchema ==
    /\ qpc = "filters_schema"
    /\ SchemaGet
    /\ qpc' = "filters_loop"
    /\ UNCHANGED <<pagination_size, srvItems, callName, offset, limit, raise_when_missing,
                   getArgs, schemaDesc, filterKeys, nodes, page_number, has_remaining_items,
                   queries, pages, results, qOutcome, qValue>>
    /\ UNCHANGED svars
    /\ UNCHANGED exceptQuery

\* filters(), lines 689-725: one iteration of the while loop, the page's
\* request being answered.
FetchPage ==
    /\ qpc = "filters_loop"
    /\ has_remaining_items
    /\ LET page_offset == PageOffset(page_number)
           qo == OrElse(offset, page_offset)
           ql == OrElse(limit, pagination_size)
           page == ServerPage(qo, ql)
           remaining_items == RemainingItems(page.count, page_offset)
       IN  /\ queries' = Append(queries, <<qo, ql>>)
           /\ pages' = Append(pages, page.edges)
           /\ nodes' = nodes \o ProcessNodes(page)
           /\ related_nodes' = related_nodes
                                  \o ProcessRelationships(page.edges, prefetch_relationships)
           /\ has_remaining_items' = ~StopPaging(remaining_items, offset, limit)
           /\ page_number' = page_number + 1
    /\ UNCHANGED <<pagination_size, schemaCached, srvItems, qpc, callName, offset, limit,
                   raise_when_missing, getArgs, schemaDesc, filterKeys, schemaFetches,
                   results, qOutcome, qValue>>
    /\ UNCHANGED <<store, storeAtCall, populate_store, prefetch_relationships, srvPeers>>
    /\ UNCHANGED exceptQuery

\* filters(), lines 703-709: execute_graphql raises (transport, authentication
\* or GraphQL error); the exception leaves filters() and get().
FetchPageRaises ==
    /\ qpc = "filters_loop"
    /\ has_remaining_items
    /\ LET page_offset == PageOffset(page_number)
       IN  queries' = Append(queries, <<OrElse(offset, page_offset), OrElse(limit, pagination_size)>>)
    /\ qOutcome' = "raised"
    /\ qpc' = "done"
    /\ UNCHANGED <<pagination_size, schemaCached, srvItems, callName, offset, limit,
                   raise_when_missing, getArgs, schemaDesc, filterKeys, nodes, page_number,
                   has_remaining_items, pages, schemaFetches, results, qValue>>
    /\ UNCHANGED svars
    /\ UNCHANGED exceptQuery

\* filters(), lines 727-736: populate the store when asked to; return nodes.
FiltersReturn ==
    /\ qpc = "filters_loop"
    /\ ~has_remaining_items
    /\ results' = nodes
    /\ IF callName = "get"
       THEN qpc' = "get_result" /\ UNCHANGED <<qOutcome, qValue>>
       ELSE qpc' = "done" /\ qOutcome' = "returned" /\ qValue' = nodes
    /\ UNCHANGED <<pagination_size, schemaCached, srvItems, callName, offset, limit,
                   raise_when_missing, getArgs, schemaDesc, filterKeys, nodes, page_number,
                   has_remaining_items, queries, pages, schemaFetches>>
    /\ store' = StoreAtReturn(populate_store, store, nodes, related_nodes)
    /\ UNCHANGED <<storeAtCall, populate_store, prefetch_relationships, srvPeers,
                   related_nodes>>
    /\ UNCHANGED exceptQuery

\* get(), lines 478-485.
GetReturn ==
    /\ qpc = "get_result"
    /\ qOutcome' = GetResult(results, raise_when_missing).outcome
    /\ qValue' = GetResult(results, raise_when_missing).value
    /\ qpc' = "done"
    /\ UNCHANGED <<pagination_size, schemaCached, srvItems, callName, offset, limit,
                   raise_when_missing, getArgs, schemaDesc, filterKeys, nodes, page_number,
                   has_remaining_items, queries, pages, schemaFetches, results>>
    /\ UNCHANGED svars
    /\ UNCHANGED exceptQuery

\* The call is over: its result (or exception) has gone to the caller and its
\* locals are dropped; the client, with its schema cache, lives on.
CallEnds ==
    /\ qpc = "done"
    /\ qpc' = "idle"
    /\ callName' = "none"
    /\ srvItems' = <<>>
    /\ offset' = None /\ limit' = None
    /\ raise_when_missing' = TRUE
    /\ getArgs' = NoArgs
    /\ schemaDesc' = NoSchema
    /\ filterKeys' = {}
    /\ nodes' = <<>> /\ page_number' = 1 /\ has_remaining_items' = TRUE
    /\ queries' = <<>> /\ pages' = <<>> /\ schemaFetches' = 0
    /\ results' = <<>> /\ qOutcome' = "none" /\ qValue' = <<>>
    /\ UNCHANGED <<pagination_size, schemaCached>>
    /\ populate_store' = FALSE /\ prefetch_relationships' = FALSE
    /\ srvPeers' = <<>> /\ related_nodes' = <<>>
    /\ storeAtCall' = store
    /\ UNCHANGED store
    /\ UNCHANGED exceptQuery

\* ======================================================================
\* execute_graphql, _post with the handle_relogin wrapper, login
\* (client.py 79-90, 742-951; the synchronous twin is 93-104, 1459-1534,
\* 2338-2468 and differs only in `await` and in sleep())
\* ======================================================================

\* The separator of " | ".join(messages); a joined message is modelled as the
\* sequence of its pieces.
Sep == " | "
ExpiredSignature == "Expired Signature"
Messages == {ExpiredSignature, "Permission denied"}

\* A response body: an "errors" list (when the key is present) and whether a
\* "data" key is present.
Bodies ==
    {[hasErrors |-> FALSE, errors |-> <<>>, data |-> d] : d \in BOOLEAN}
    \cup {[hasErrors |-> TRUE, errors |-> e, data |-> FALSE] : e \in SeqsUpTo(Messages, MaxErrors)}

Statuses == {200, 401, 403, 500}

\* What the transport can give for the GraphQL request: a response, or one of
\* the two httpx exceptions _default_request_method translates.
Responses == {[status |-> st, body |-> bd] : st \in Statuses, bd \in Bodies}
NetworkError == [status |-> -1, body |-> [hasErrors |-> FALSE, errors |-> <<>>, data |-> FALSE]]
ReadTimeout == [status |-> -2, body |-> [hasErrors |-> FALSE, errors |-> <<>>, data |-> FALSE]]
NoResponse == [status |-> 0, body |-> [hasErrors |-> FALSE, errors |-> <<>>, data |-> FALSE]]

\* What the transport can give for a request to /api/auth/login or
\* /api/auth/refresh.
AuthResponses ==
    {[status |-> 200, body |-> [hasErrors |-> FALSE, errors |-> <<>>, data |-> TRUE]]}
    \cup {[status |-> st, body |-> bd] : st \in {401, 500},
            bd \in {[hasErrors |-> FALSE, errors |-> <<>>, data |-> FALSE],
                    [hasErrors |-> TRUE, errors |-> <<"Permission denied">>, data |-> FALSE]}}

NoException == [type |-> "none", response |-> NoResponse, message |-> <<>>]
Raise(t, r, m) == [type |-> t, response |-> r, message |-> m]

\* httpx.Response.raise_for_status raises for everything but 2xx here.
IsSuccess(st) == st = 200

\* [error.get("message") for error in errors] on response.get("errors", [])
ErrorMessages(r) == IF r.body.hasErrors THEN r.body.errors ELSE <<>>

\* A join that puts the separator after every message, the last included.
RECURSIVE JoinTrailing(_)
JoinTrailing(msgs) ==
    IF Len(msgs) = 0 THEN <<>> ELSE <<msgs[1], Sep>> \o JoinTrailing(Tail(msgs))

\* " | ".join(messages)
RECURSIVE Join(_)
Join(msgs) ==
    IF Len(msgs) = 0 THEN <<>>
    ELSE IF Len(msgs) = 1 THEN <<msgs[1]>>
    ELSE <<msgs[1], Sep>> \o Join(Tail(msgs))

\* handle_relogin: response.status_code == 401 and "Expired Signature" among
\* the messages of the errors.
IsExpiredSignature(r) ==
    r.status = 401 /\ \E i \in 1..Len(ErrorMessages(r)) : ErrorMessages(r)[i] = ExpiredSignature

\* A variant that files the read timeout under the unreachable failures.
TransportExceptionOneKind(r) == Raise("ServerNotReachableError", NoResponse, <<>>)

\* _default_request_method: httpx.NetworkError -> ServerNotReachableError,
\* httpx.ReadTimeout -> ServerNotResponsiveError.
TransportException(r) ==
    IF r = NetworkError THEN Raise("ServerNotReachableError", NoResponse, <<>>)
    ELSE Raise("ServerNotResponsiveError", NoResponse, <<>>)

\* A wrapper that sends the replay's answer through the 401 test again.
NextAfterResponseRecheck(ph) == "wrapper"

\* handle_relogin wrapper: the answer of the first call of func is tested for
\* the expired signature (line 83), the answer of the replay is returned as it
\* is (line 87).
NextAfterResponse(ph) == IF ph = 1 THEN "wrapper" ELSE "returned"

TInit ==
    /\ retry_on_failure \in BOOLEAN
    /\ password_authentication \in BOOLEAN
    /\ access_token = FALSE
    /\ refresh_token = FALSE
    /\ tpc = "idle"
    /\ raise_for_error = TRUE
    /\ retry = TRUE
    /\ resp = NoResponse
    /\ response = NoResponse
    /\ phase = 1
    /\ exc = NoException
    /\ firstResponse = NoResponse
    /\ sawUnreachable = FALSE
    /\ sawTimeout = FALSE
    /\ attempts = 0
    /\ attemptSends = 0
    /\ attemptRelogins = 0
    /\ repeatCause = "none"
    /\ tOutcome = "none"
    /\ tErrors = <<>>

\* A request met httpx.NetworkError or httpx.ReadTimeout: the translated
\* exception leaves _request, login and the wrapper.
TransportFails(r) ==
    /\ exc' = TransportException(r)
    /\ tpc' = "except"
    /\ response' = NoResponse
    /\ sawUnreachable' = (sawUnreachable \/ r = NetworkError)
    /\ sawTimeout' = (sawTimeout \/ r = ReadTimeout)

\* An exception e raised by login or refresh_login leaves the wrapper.
LoginRaises(e) ==
    /\ exc' = e
    /\ tpc' = "except"
    /\ response' = NoResponse
    /\ UNCHANGED <<sawUnreachable, sawTimeout>>

\* execute_graphql(query, raise_for_error=...), lines 769-783.
ExecuteGraphql ==
    /\ tpc = "idle"
    /\ raise_for_error' \in BOOLEAN
    /\ retry' = TRUE
    /\ resp' = NoResponse
    /\ tpc' = "while"
    /\ UNCHANGED <<retry_on_failure, password_authentication, access_token, refresh_token,
                   response, phase, exc, firstResponse, sawUnreachable, sawTimeout,
                   attempts, attemptSends, attemptRelogins, repeatCause, tOutcome, tErrors>>
    /\ UNCHANGED exceptTransport

\* lines 784-787: the loop test; a new iteration sets retry and calls _post.
WhileRetry ==
    /\ tpc = "while"
    /\ IF retry
       THEN /\ attempts < MaxAttempts
            /\ retry' = retry_on_failure
            /\ attempts' = attempts + 1
            /\ phase' = 1
            /\ response' = NoResponse
            /\ firstResponse' = NoResponse
            /\ attemptSends' = 0
            /\ attemptRelogins' = 0
            /\ tpc' = "login"
       ELSE /\ tpc' = "after_loop"
            /\ UNCHANGED <<retry, attempts, phase, response, firstResponse, attemptSends,
                           attemptRelogins>>
    /\ UNCHANGED <<retry_on_failure, password_authentication, access_token, refresh_token,
                   raise_for_error, resp, exc, sawUnreachable, sawTimeout, repeatCause,
                   tOutcome, tErrors>>
    /\ UNCHANGED exceptTransport

\* _post line 831 -> login(refresh=False), lines 918-951: nothing without
\* password authentication or with an access token; else the login exchange.
Login ==
    /\ tpc = "login"
    /\ IF ~password_authentication \/ access_token
       THEN /\ tpc' = "request"
            /\ UNCHANGED <<access_token, refresh_token, exc, response, sawUnreachable,
                           sawTimeout>>
       ELSE \E r \in AuthResponses \cup {NetworkError, ReadTimeout} :
               IF r \in {NetworkError, ReadTimeout}
               THEN /\ TransportFails(r)
                    /\ UNCHANGED <<access_token, refresh_token>>
               ELSE IF IsSuccess(r.status)
               THEN /\ access_token' = TRUE
                    /\ refresh_token' = TRUE
                    /\ tpc' = "request"
                    /\ UNCHANGED <<exc, response, sawUnreachable, sawTimeout>>
               ELSE /\ LoginRaises(Raise("HTTPStatusError", r, <<>>))
                    /\ UNCHANGED <<access_token, refresh_token>>
    /\ UNCHANGED <<retry_on_failure, password_authentication, raise_for_error, retry, resp,
                   phase, firstResponse, attempts, attemptSends, attemptRelogins,
                   repeatCause, tOutcome, tErrors>>
    /\ UNCHANGED exceptTransport

\* _post lines 837-839 -> _request -> _default_request_method, lines 886-897:
\* the GraphQL request is sent and answered, or the transport fails.
Request ==
    /\ tpc = "request"
    /\ attemptSends' = attemptSends + 1
    /\ \E r \in Responses \cup {NetworkError, ReadTimeout} :
          IF r \in {NetworkError, ReadTimeout}
          THEN /\ TransportFails(r)
               /\ UNCHANGED firstResponse
          ELSE /\ response' = r
               /\ firstResponse' = IF phase = 1 THEN r ELSE firstResponse
               /\ tpc' = NextAfterResponse(phase)
               /\ UNCHANGED <<exc, sawUnreachable, sawTimeout>>
    /\ UNCHANGED <<retry_on_failure, password_authentication, access_token, refresh_token,
                   raise_for_error, retry, resp, phase, attempts, attemptRelogins,
                   repeatCause, tOutcome, tErrors>>
    /\ UNCHANGED exceptTransport

\* handle_relogin wrapper, lines 83-88: an expired-signature 401 goes to
\* client.login(refresh=True); every other response is returned.
HandleRelogin ==
    /\ tpc = "wrapper"
    /\ IF IsExpiredSignature(response)
       THEN /\ tpc' = "relogin"
            /\ attemptRelogins' = attemptRelogins + 1
       ELSE /\ tpc' = "returned"
            /\ UNCHANGED attemptRelogins
    /\ UNCHANGED <<retry_on_failure, password_authentication, access_token, refresh_token,
                   raise_for_error, retry, resp, response, phase, exc, firstResponse,
                   sawUnreachable, sawTimeout, attempts, attemptSends, repeatCause,
                   tOutcome, tErrors>>
    /\ UNCHANGED exceptTransport

\* login(refresh=True), lines 919-936: nothing without password
\* authentication; with a refresh token the refresh exchange (refresh_login,
\* lines 901-916), whose 401 falls through to the full login and whose other
\* failures raise AuthenticationError; without one the full login.
LoginRefresh ==
    /\ tpc = "relogin"
    /\ IF ~password_authentication
       THEN /\ phase' = 2
            /\ tpc' = "login"
            /\ UNCHANGED <<access_token, exc, response, sawUnreachable, sawTimeout>>
       ELSE IF ~refresh_token
       THEN /\ tpc' = "full_login"
            /\ UNCHANGED <<access_token, exc, phase, response, sawUnreachable, sawTimeout>>
       ELSE \E r \in AuthResponses \cup {NetworkError, ReadTimeout} :
               IF r \in {NetworkError, ReadTimeout}
               THEN /\ TransportFails(r)
                    /\ UNCHANGED <<access_token, phase>>
               ELSE IF IsSuccess(r.status)
               THEN /\ access_token' = TRUE
                    /\ phase' = 2
                    /\ tpc' = "login"
                    /\ UNCHANGED <<exc, response, sawUnreachable, sawTimeout>>
               ELSE IF r.status = 401
               THEN /\ tpc' = "full_login"
                    /\ UNCHANGED <<access_token, exc, phase, response, sawUnreachable,
                                   sawTimeout>>
               ELSE /\ LoginRaises(IF r.body.hasErrors
                                   THEN Raise("AuthenticationError", r, Join(ErrorMessages(r)))
                                   ELSE Raise("TypeError", r, <<>>))
                    /\ UNCHANGED <<access_token, phase>>
    /\ UNCHANGED <<retry_on_failure, password_authentication, refresh_token, raise_for_error,
                   retry, resp, firstResponse, attempts, attemptSends, attemptRelogins,
                   repeatCause, tOutcome, tErrors>>
    /\ UNCHANGED exceptTransport

\* login(refresh=True), lines 938-951: the username/password exchange of a
\* re-login; on success the wrapper replays the request.
LoginFull ==
    /\ tpc = "full_login"
    /\ \E r \in AuthResponses \cup {NetworkError, ReadTimeout} :
          IF r \in {NetworkError, ReadTimeout}
          THEN /\ TransportFails(r)
               /\ UNCHANGED <<access_token, refresh_token, phase>>
          ELSE IF IsSuccess(r.status)
          THEN /\ access_token' = TRUE
               /\ refresh_token' = TRUE
               /\ phase' = 2
               /\ tpc' = "login"
               /\ UNCHANGED <<exc, response, sawUnreachable, sawTimeout>>
          ELSE /\ LoginRaises(Raise("HTTPStatusError", r, <<>>))
               /\ UNCHANGED <<access_token, refresh_token, phase>>
    /\ UNCHANGED <<retry_on_failure, password_authentication, raise_for_error, retry, resp,
                   firstResponse, attempts, attemptSends, attemptRelogins, repeatCause,
                   tOutcome, tErrors>>
    /\ UNCHANGED exceptTransport

\* execute_graphql lines 787-792: resp is bound to what _post returned;
\* raise_for_status when asked for; else the loop is over.
RaiseForStatus ==
    /\ tpc = "returned"
    /\ resp' = response
    /\ IF raise_for_error /\ ~IsSuccess(response.status)
       THEN /\ exc' = Raise("HTTPStatusError", response, <<>>)
            /\ tpc' = "except"
            /\ UNCHANGED retry
       ELSE /\ retry' = FALSE
            /\ tpc' = "while"
            /\ UNCHANGED exc
    /\ UNCHANGED <<retry_on_failure, password_authentication, access_token, refresh_token,
                   raise_for_error, response, phase, firstResponse, sawUnreachable,
                   sawTimeout, attempts, attemptSends, attemptRelogins, repeatCause,
                   tOutcome, tErrors>>
    /\ UNCHANGED exceptTransport

\* execute_graphql lines 793-807: the two except clauses; any other exception
\* leaves execute_graphql as it is.
HandleException ==
    /\ tpc = "except"
    /\ IF exc.type = "ServerNotReachableError"
       THEN IF retry
            THEN /\ tpc' = "sleep"
                 /\ UNCHANGED <<tOutcome, tErrors, repeatCause>>
            ELSE /\ tpc' = "done"
                 /\ tOutcome' = "ServerNotReachableError"
                 /\ UNCHANGED <<tErrors, repeatCause>>
       ELSE IF exc.type = "HTTPStatusError"
       THEN IF exc.response.status \in {401, 403}
            THEN /\ tpc' = "done"
                 /\ tOutcome' = "AuthenticationError"
                 /\ tErrors' = Join(ErrorMessages(exc.response))
                 /\ UNCHANGED repeatCause
            ELSE /\ tpc' = "while"
                 /\ repeatCause' = "status"
                 /\ UNCHANGED <<tOutcome, tErrors>>
       ELSE /\ tpc' = "done"
            /\ tOutcome' = exc.type
            /\ tErrors' = exc.message
            /\ UNCHANGED repeatCause
    /\ exc' = NoException
    /\ UNCHANGED <<retry_on_failure, password_authentication, access_token, refresh_token,
                   raise_for_error, retry, resp, response, phase, firstResponse,
                   sawUnreachable, sawTimeout, attempts, attemptSends, attemptRelogins>>
    /\ UNCHANGED exceptTransport

\* execute_graphql line 798: asyncio.sleep(delay=self.retry_delay), then the
\* loop test again.
Sleep ==
    /\ tpc = "sleep"
    /\ tpc' = "while"
    /\ repeatCause' = "unreachable"
    /\ UNCHANGED <<retry_on_failure, password_authentication, access_token, refresh_token,
                   raise_for_error, retry, resp, response, phase, exc, firstResponse,
                   sawUnreachable, sawTimeout, attempts, attemptSends, attemptRelogins,
                   tOutcome, tErrors>>
    /\ UNCHANGED exceptTransport

\* execute_graphql lines 809-817: decode resp; raise GraphQLError when it has
\* an "errors" key, else return response["data"].
DecodeResponse ==
    /\ tpc = "after_loop"
    /\ tpc' = "done"
    /\ IF resp = NoResponse
       THEN tOutcome' = "Error" /\ tErrors' = <<>>
       ELSE IF resp.body.hasErrors
       THEN tOutcome' = "GraphQLError" /\ tErrors' = resp.body.errors
       ELSE IF resp.body.data
       THEN tOutcome' = "returned" /\ tErrors' = <<>>
       ELSE tOutcome' = "KeyError" /\ tErrors' = <<>>
    /\ UNCHANGED <<retry_on_failure, password_authentication, access_token, refresh_token,
                   raise_for_error, retry, resp, response, phase, exc, firstResponse,
                   sawUnreachable, sawTimeout, attempts, attemptSends, attemptRelogins,
                   repeatCause>>
    /\ UNCHANGED exceptTransport

\* The call is over; the client keeps its tokens.
ExecuteGraphqlEnds ==
    /\ tpc = "done"
    /\ tpc' = "idle"
    /\ raise_for_error' = TRUE
    /\ retry' = TRUE
    /\ resp' = NoResponse
    /\ response' = NoResponse
    /\ phase' = 1
    /\ exc' = NoException
    /\ firstResponse' = NoResponse
    /\ sawUnreachable' = FALSE
    /\ sawTimeout' = FALSE
    /\ attempts' = 0
    /\ attemptSends' = 0
    /\ attemptRelogins' = 0
    /\ repeatCause' = "none"
    /\ tOutcome' = "none"
    /\ tErrors' = <<>>
    /\ UNCHANGED <<retry_on_failure, password_authentication, access_token, refresh_token>>
    /\ UNCHANGED exceptTransport

TNext ==
    \/ ExecuteGraphql
    \/ WhileRetry
    \/ Login
    \/ Request
    \/ HandleRelogin
    \/ LoginRefresh
    \/ LoginFull
    \/ RaiseForStatus
    \/ HandleException
    \/ Sleep
    \/ DecodeResponse
    \/ ExecuteGraphqlEnds

\* ======================================================================
\* create_batch and the batch runner
\* (client.py 270-277, 1331-1332, 1452-1453; the runner itself is
\* infrahub_sdk/batch.py, modelled from section 5 of the specification)
\* ======================================================================

\* The batches one client hands out, and the semaphores that can exist: the
\* client's own and one per batch for a batch that would make its own.
BatchIds == {"b1", "b2"}
SemIds == {"client"} \cup BatchIds

\* A batch that passes nothing on: it would run with the default flag.
BatchReturnExceptionsDefault(re) == FALSE

\* create_batch, line 1332: return_exceptions=return_exceptions
BatchReturnExceptions(re) == re

\* A batch that limits its tasks with a semaphore of its own.
BatchSemaphoreOwn(b) == b

\* create_batch, line 1332: semaphore=self.concurrent_execution_limit
BatchSemaphore(b) == "client"

\* A synchronous create_batch that hands out a batch when asked to capture
\* exceptions.
CreateBatchSyncResultLenient(re) ==
    IF re THEN [outcome |-> "returned", created |-> TRUE]
    ELSE [outcome |-> "NotImplementedError", created |-> FALSE]

\* InfrahubClientSync.create_batch, lines 1452-1453: raise NotImplementedError
CreateBatchSyncResult(re) == [outcome |-> "NotImplementedError", created |-> FALSE]

NoBatch ==
    [created |-> FALSE, asked |-> FALSE, return_exceptions |-> FALSE, semaphore |-> "client",
     tasks |-> <<>>, bpc |-> "none", completed |-> <<>>, yielded |-> <<>>, raised |-> <<>>]

\* _initialize, line 275: asyncio.Semaphore(self.max_concurrent_execution)
BInit ==
    /\ max_concurrent_execution \in 1..MaxConcurrent
    /\ semaphores = [s \in SemIds |-> max_concurrent_execution]
    /\ batches = [b \in BatchIds |-> NoBatch]
    /\ syncCalls = "none"
    /\ syncOutcome = "none"
    /\ syncBatches = {}

\* await client.create_batch(return_exceptions=...); "b1" names the first
\* batch the client hands out, "b2" the second.
CreateBatch(b) ==
    /\ ~batches[b].created
    /\ b = "b1" \/ batches["b1"].created
    /\ \E re \in BOOLEAN :
          batches' = [batches EXCEPT ![b] =
                         [NoBatch EXCEPT !.created = TRUE,
                                         !.asked = re,
                                         !.return_exceptions = BatchReturnExceptions(re),
                                         !.semaphore = BatchSemaphore(b),
                                         !.bpc = "open"]]
    /\ UNCHANGED <<max_concurrent_execution, semaphores, syncCalls, syncOutcome, syncBatches>>
    /\ UNCHANGED exceptBatch

\* The tasks added to the batches of the client so far.
RECURSIVE TasksAdded(_)
TasksAdded(bs) ==
    IF bs = {} THEN 0
    ELSE LET b == CHOOSE x \in bs : TRUE
         IN  Len(batches[b].tasks) + TasksAdded(bs \ {b})

\* batch.add(task=..., node=...): the task is queued; its position in the
\* queue stands for its identity.
BatchAdd(b) ==
    /\ batches[b].bpc = "open"
    /\ TasksAdded(BatchIds) < MaxTasks
    /\ batches' = [batches EXCEPT ![b].tasks = Append(@, "added")]
    /\ UNCHANGED <<max_concurrent_execution, semaphores, syncCalls, syncOutcome, syncBatches>>
    /\ UNCHANGED exceptBatch

\* batch.execute(): every queued task is started; each waits for the semaphore.
BatchExecute(b) ==
    /\ batches[b].bpc = "open"
    /\ batches' = [batches EXCEPT ![b].bpc = "executing",
                                  ![b].tasks = [i \in 1..Len(@) |-> "waiting"]]
    /\ UNCHANGED <<max_concurrent_execution, semaphores, syncCalls, syncOutcome, syncBatches>>
    /\ UNCHANGED exceptBatch

\* A started task takes a permit of its batch's semaphore and is in flight.
TaskAcquire(b, i) ==
    /\ batches[b].bpc \in {"executing", "raised"}
    /\ batches[b].tasks[i] = "waiting"
    /\ semaphores[batches[b].semaphore] > 0
    /\ semaphores' = [semaphores EXCEPT ![batches[b].semaphore] = @ - 1]
    /\ batches' = [batches EXCEPT ![b].tasks[i] = "running"]
    /\ UNCHANGED <<max_concurrent_execution, syncCalls, syncOutcome, syncBatches>>
    /\ UNCHANGED exceptBatch

\* A task in flight ends with a result or with an exception, and gives its
\* permit back; the batch sees its tasks in the order they complete.
TaskCompletes(b, i) ==
    /\ batches[b].tasks[i] = "running"
    /\ semaphores' = [semaphores EXCEPT ![batches[b].semaphore] = @ + 1]
    /\ \E result \in {"ok", "exception"} :
          batches' = [batches EXCEPT ![b].tasks[i] = "done",
                                     ![b].completed = Append(@, <<i, result>>)]
    /\ UNCHANGED <<max_concurrent_execution, syncCalls, syncOutcome, syncBatches>>
    /\ UNCHANGED exceptBatch

\* execute(): the next completed task reaches the caller: as a pair, or, when
\* it failed and exceptions are not captured, as the exception, which ends
\* execute().
BatchYield(b) ==
    /\ batches[b].bpc = "executing"
    /\ Len(batches[b].yielded) < Len(batches[b].completed)
    /\ LET next == batches[b].completed[Len(batches[b].yielded) + 1]
       IN  IF next[2] = "exception" /\ ~batches[b].return_exceptions
           THEN batches' = [batches EXCEPT ![b].bpc = "raised", ![b].raised = <<next>>]
           ELSE batches' = [batches EXCEPT ![b].yielded = Append(@, next)]
    /\ UNCHANGED <<max_concurrent_execution, semaphores, syncCalls, syncOutcome, syncBatches>>
    /\ UNCHANGED exceptBatch

\* execute(): every task has been yielded; the iteration is over.
BatchFinished(b) ==
    /\ batches[b].bpc = "executing"
    /\ Len(batches[b].yielded) = Len(batches[b].tasks)
    /\ batches' = [batches EXCEPT ![b].bpc = "finished"]
    /\ UNCHANGED <<max_concurrent_execution, semaphores, syncCalls, syncOutcome, syncBatches>>
    /\ UNCHANGED exceptBatch

\* InfrahubClientSync.create_batch(return_exceptions=...), lines 1452-1453.
CreateBatchSync ==
    /\ \E re \in BOOLEAN :
          /\ syncCalls' = IF re THEN "return_exceptions=True" ELSE "return_exceptions=False"
          /\ syncOutcome' = CreateBatchSyncResult(re).outcome
          /\ syncBatches' = IF CreateBatchSyncResult(re).created
                            THEN syncBatches \cup {re}
                            ELSE syncBatches
    /\ UNCHANGED <<max_concurrent_execution, semaphores, batches>>
    /\ UNCHANGED exceptBatch

BNext ==
    \/ \E b \in BatchIds : CreateBatch(b)
    \/ \E b \in BatchIds : BatchAdd(b)
    \/ \E b \in BatchIds : BatchExecute(b)
    \/ \E b \in BatchIds : \E i \in 1..Len(batches[b].tasks) : TaskAcquire(b, i)
    \/ \E b \in BatchIds : \E i \in 1..Len(batches[b].tasks) : TaskCompletes(b, i)
    \/ \E b \in BatchIds : BatchYield(b)
    \/ \E b \in BatchIds : BatchFinished(b)

\* ======================================================================
\* The object loader: InfrahubObjectFileData.create_node
\* (spec/object.py 19-112)
\* ======================================================================

\* A schema with the attribute "name" and the relationship "children": which
\* of them is mandatory, the relationship's cardinality and whether it has an
\* identifier.
LoaderSchemas ==
    [nameMandatory : BOOLEAN, relMandatory : BOOLEAN, cardinality : {"one", "many"},
     identifier : BOOLEAN]

\* The peer schema, with the attribute "name" and, when hasReverse, the
\* relationship "parent" (cardinality one) that has the same identifier.
PeerSchemas ==
    {p \in [nameMandatory : BOOLEAN, hasReverse : BOOLEAN, reverseMandatory : BOOLEAN] :
        p.reverseMandatory => p.hasReverse}

\* A nested record: whether it has the key "name" and whether it has the key
\* "parent" itself (with a reference string for value).
ChildRecords == [hasName : BOOLEAN, namesParent : BOOLEAN]

\* The value a record has under "children", by shape: no key; a string; an
\* integer; a list of references; a dict without "data"; a dict whose "data"
\* is a string, a dict (one nested record) or a list of nested records.
RelValues ==
    {[shape |-> sh, items |-> <<>>] :
        sh \in {"absent", "str", "int", "list", "dict_nodata", "data_str"}}
    \cup {[shape |-> "data_dict", items |-> <<c>>] : c \in ChildRecords}
    \cup {[shape |-> "data_list", items |-> cs] : cs \in SeqsUpTo(ChildRecords, MaxChildren)}

Records == [hasName : BOOLEAN, rel : RelValues]

\* Ids the server assigns to a saved node.
ServerIds == {"id1", "id2"}

NoPayload == [kind |-> "none", name |-> "absent", rel |-> "absent", parent |-> "absent"]
NoContext == [parent |-> "absent", list_index |-> None]

\* A validation that looks at the mandatory attributes only.
MandatoryMissingAttributesOnly(fr, schema, peer, data, idx) ==
    IF fr = "parent" THEN schema.nameMandatory /\ ~data.hasName
    ELSE peer.nameMandatory /\ ~data.rel.items[idx].hasName

\* lines 29-31: a mandatory attribute or relationship name is not a key of the
\* record create_node was given.
MandatoryMissing(fr, schema, peer, data, idx) ==
    IF fr = "parent"
    THEN \/ schema.nameMandatory /\ ~data.hasName
         \/ schema.relMandatory /\ data.rel.shape = "absent"
    ELSE \/ peer.nameMandatory /\ ~data.rel.items[idx].hasName
         \/ peer.reverseMandatory /\ ~data.rel.items[idx].namesParent

\* line 43: isinstance(value, dict) and "data" not in value
DictWithoutData(fr, data) == fr = "parent" /\ data.rel.shape = "dict_nodata"

\* lines 47-52: where the value under "children" goes.
RelPlacement(schema, value) ==
    IF value.shape = "list" THEN "list"
    ELSE IF schema.cardinality = "one" /\ value.shape = "str" THEN "wrapped"
    ELSE "remaining"

\* A context whose reverse link is left out.
PeerContextWithout(peer, id) == NoContext

\* lines 84-86: context = {}; if peer_rel: context[peer_rel.name] = node.id
PeerContext(peer, id) == IF peer.hasReverse THEN [NoContext EXCEPT !.parent = id] ELSE NoContext

\* lines 33-62: clean_data of the record, the context merged in last.
CleanData(fr, schema, peer, data, idx, context) ==
    IF fr = "parent"
    THEN [kind |-> "parent",
          name |-> IF data.hasName THEN "value" ELSE "absent",
          rel |-> IF data.rel.shape = "absent" \/ RelPlacement(schema, data.rel) = "remaining"
                  THEN "absent" ELSE RelPlacement(schema, data.rel),
          parent |-> "absent"]
    ELSE [kind |-> "child",
          name |-> IF data.rel.items[idx].hasName THEN "value" ELSE "absent",
          rel |-> "absent",
          parent |-> IF context.parent # "absent" THEN context.parent
                     ELSE IF peer.hasReverse /\ data.rel.items[idx].namesParent THEN "wrapped"
                     ELSE "absent"]

LInit ==
    /\ lpc = "idle"
    /\ lschema = [nameMandatory |-> FALSE, relMandatory |-> FALSE, cardinality |-> "one",
                  identifier |-> FALSE]
    /\ lpeer = [nameMandatory |-> FALSE, hasReverse |-> FALSE, reverseMandatory |-> FALSE]
    /\ ldata = [hasName |-> FALSE, rel |-> [shape |-> "absent", items |-> <<>>]]
    /\ frame = "parent"
    /\ childIdx = 0
    /\ clean_data = NoPayload
    /\ remaining_rels = <<>>
    /\ lcontext = NoContext
    /\ parentNodeId = "absent"
    /\ creates = <<>>
    /\ peerSchemaGets = 0
    /\ callsAtEntry = 0
    /\ lOutcome = "none"
    /\ lError = "none"

\* The exception e, raised by the statement named at, leaves create_node and
\* every create_node above it.
LoaderRaises(e, at) == lOutcome' = e /\ lError' = at /\ lpc' = "done"

\* create_node(client, schema, data) for one record of an object file
\* (ctl/object.py 47-48).
LoadRecord ==
    /\ lpc = "idle"
    /\ \E sc \in LoaderSchemas, pe \in PeerSchemas, rec \in Records :
          /\ lschema' = sc
          /\ lpeer' = pe
          /\ ldata' = rec
    /\ frame' = "parent"
    /\ lpc' = "local"
    /\ UNCHANGED <<childIdx, clean_data, remaining_rels, lcontext, parentNodeId, creates,
                   peerSchemaGets, callsAtEntry, lOutcome, lError>>
    /\ UNCHANGED exceptLoader

\* create_node lines 28-62, up to the first network call: the mandatory keys,
\* the partition of the record's keys, the context and the enrich hook (the
\* identity for an object file).
CreateNodeLocal ==
    /\ lpc = "local"
    /\ IF MandatoryMissing(frame, lschema, lpeer, ldata, childIdx)
       THEN /\ LoaderRaises("ValueError", "mandatory")
            /\ UNCHANGED <<clean_data, remaining_rels>>
       ELSE IF DictWithoutData(frame, ldata)
       THEN /\ LoaderRaises("ValueError", "no_data")
            /\ UNCHANGED <<clean_data, remaining_rels>>
       ELSE /\ clean_data' = CleanData(frame, lschema, lpeer, ldata, childIdx, lcontext)
            /\ remaining_rels' =
                  IF frame = "parent" /\ ldata.rel.shape # "absent"
                     /\ RelPlacement(lschema, ldata.rel) = "remaining"
                  THEN <<"children">> ELSE <<>>
            /\ lpc' = "save"
            /\ UNCHANGED <<lOutcome, lError>>
    /\ UNCHANGED <<lschema, lpeer, ldata, frame, childIdx, lcontext, parentNodeId, creates,
                   peerSchemaGets, callsAtEntry>>
    /\ UNCHANGED exceptLoader

\* create_node lines 64-67: client.create and node.save(allow_upsert=True);
\* the save is answered with the node's id, or raises.  A saved nested record
\* returns to the loop of its parent (lines 99-108).
CreateNodeSave ==
    /\ lpc = "save"
    /\ \/ /\ LoaderRaises("raised", "save")
          /\ UNCHANGED <<creates, parentNodeId, childIdx, callsAtEntry, lcontext>>
       \/ /\ creates' = Append(creates, clean_data)
          /\ UNCHANGED <<lOutcome, lError>>
          /\ IF frame = "parent"
             THEN /\ \E id \in ServerIds : parentNodeId' = id
                  /\ lpc' = IF remaining_rels = <<>> THEN "returned" ELSE "resolve"
                  /\ UNCHANGED <<childIdx, callsAtEntry, lcontext>>
             ELSE /\ UNCHANGED parentNodeId
                  /\ IF lschema.cardinality = "many" /\ childIdx < Len(ldata.rel.items)
                     THEN /\ childIdx' = childIdx + 1
                          /\ lcontext' = [lcontext EXCEPT !.list_index = childIdx]
                          /\ callsAtEntry' = Len(creates') + peerSchemaGets
                          /\ lpc' = "local"
                     ELSE /\ lpc' = "returned"
                          /\ UNCHANGED <<childIdx, callsAtEntry, lcontext>>
    /\ UNCHANGED <<lschema, lpeer, ldata, frame, clean_data, remaining_rels, peerSchemaGets>>
    /\ UNCHANGED exceptLoader

\* create_node lines 69-86 for the deferred relationship: the test of line
\* 71, the peer schema (client.schema.get), the identifier, the reverse link.
ResolveRelationship ==
    /\ lpc = "resolve"
    /\ IF ldata.rel.shape = "int"
       THEN /\ LoaderRaises("TypeError", "line71")
            /\ UNCHANGED <<peerSchemaGets, lcontext>>
       ELSE IF ldata.rel.shape = "str"
       THEN /\ LoaderRaises("AttributeError", "line75")
            /\ UNCHANGED <<peerSchemaGets, lcontext>>
       ELSE /\ peerSchemaGets' = peerSchemaGets + 1
            /\ \/ /\ LoaderRaises("raised", "schema")
                  /\ UNCHANGED lcontext
               \/ IF ~lschema.identifier
                  THEN /\ LoaderRaises("ValueError", "identifier")
                       /\ UNCHANGED lcontext
                  ELSE /\ lcontext' = PeerContext(lpeer, parentNodeId)
                       /\ lpc' = "dispatch"
                       /\ UNCHANGED <<lOutcome, lError>>
    /\ UNCHANGED <<lschema, lpeer, ldata, frame, childIdx, clean_data, remaining_rels,
                   parentNodeId, creates, callsAtEntry>>
    /\ UNCHANGED exceptLoader

\* create_node lines 83-112: the nested data goes to create_node, one dict
\* for cardinality one, every item of a list (tagged with its index) for
\* cardinality many; any other combination raises.
DispatchRelationship ==
    /\ lpc = "dispatch"
    /\ IF lschema.cardinality = "one" /\ ldata.rel.shape = "data_dict"
       THEN /\ frame' = "child" /\ childIdx' = 1 /\ lpc' = "local"
            /\ callsAtEntry' = Len(creates) + peerSchemaGets
            /\ UNCHANGED <<lcontext, lOutcome, lError>>
       ELSE IF lschema.cardinality = "many" /\ ldata.rel.shape = "data_list"
       THEN IF Len(ldata.rel.items) = 0
            THEN /\ lpc' = "returned"
                 /\ UNCHANGED <<frame, childIdx, callsAtEntry, lcontext, lOutcome, lError>>
            ELSE /\ frame' = "child" /\ childIdx' = 1 /\ lpc' = "local"
                 /\ callsAtEntry' = Len(creates) + peerSchemaGets
                 /\ lcontext' = [lcontext EXCEPT !.list_index = 0]
                 /\ UNCHANGED <<lOutcome, lError>>
       ELSE /\ LoaderRaises("ValueError", "format")
            /\ UNCHANGED <<frame, childIdx, callsAtEntry, lcontext>>
    /\ UNCHANGED <<lschema, lpeer, ldata, clean_data, remaining_rels, parentNodeId, creates,
                   peerSchemaGets>>
    /\ UNCHANGED exceptLoader

\* The outermost create_node returns.
LoadReturns ==
    /\ lpc = "returned"
    /\ lpc' = "done"
    /\ lOutcome' = "returned"
    /\ UNCHANGED <<lschema, lpeer, ldata, frame, childIdx, clean_data, remaining_rels,
                   lcontext, parentNodeId, creates, peerSchemaGets, callsAtEntry, lError>>
    /\ UNCHANGED exceptLoader

\* The load is over; the next record starts afresh.
LoadEnds ==
    /\ lpc = "done"
    /\ lpc' = "idle"
    /\ lschema' = [nameMandatory |-> FALSE, relMandatory |-> FALSE, cardinality |-> "one",
                   identifier |-> FALSE]
    /\ lpeer' = [nameMandatory |-> FALSE, hasReverse |-> FALSE, reverseMandatory |-> FALSE]
    /\ ldata' = [hasName |-> FALSE, rel |-> [shape |-> "absent", items |-> <<>>]]
    /\ frame' = "parent"
    /\ childIdx' = 0
    /\ clean_data' = NoPayload
    /\ remaining_rels' = <<>>
    /\ lcontext' = NoContext
    /\ parentNodeId' = "absent"
    /\ creates' = <<>>
    /\ peerSchemaGets' = 0
    /\ callsAtEntry' = 0
    /\ lOutcome' = "none"
    /\ lError' = "none"
    /\ UNCHANGED exceptLoader

LNext ==
    \/ LoadRecord
    \/ CreateNodeLocal
    \/ CreateNodeSave
    \/ ResolveRelationship
    \/ DispatchRelationship
    \/ LoadReturns
    \/ LoadEnds

\* ======================================================================
\* Diff summary: diff_tree_node_to_node_diff (diff.py 77-128)
\* ======================================================================

\* What dict.get gives for a key that is missing (or null) where a string is
\* expected; for the counts it is None.
PyNone == "<None>"

\* str(v)
Str(v) == IF v = PyNone THEN "None" ELSE v

\* str.upper() on the cardinalities and on str(None)
Upper(v) ==
    IF v \in {"one", "One", "ONE"} THEN "ONE"
    ELSE IF v \in {"many", "MANY"} THEN "MANY"
    ELSE IF v = "None" THEN "NONE"
    ELSE v

\* int(d.get(key) or 0)
IntOrZero(v) == IF v = None \/ v = 0 THEN 0 ELSE v

\* The three counts of an entry of the response.
Counts ==
    {[num_added |-> None, num_removed |-> 0, num_updated |-> 1],
     [num_added |-> 3, num_removed |-> 0, num_updated |-> 0],
     [num_added |-> 0, num_removed |-> 1, num_updated |-> None]}

\* An entry of a relationship's "elements" sub-list.
ElementDicts == [status : {"ADDED", "REMOVED", PyNone}, counts : Counts]

AttributeDicts == {[name |-> "name", status |-> "UPDATED", counts |-> c] : c \in Counts}

\* An entry of "relationships"; hasElements tells whether it has the key
\* "elements".
RelationshipDicts ==
    {[name |-> "cars", status |-> "UPDATED", cardinality |-> ca, counts |-> c,
      hasElements |-> TRUE, elements |-> es] :
        ca \in {"ONE", "one", "MANY", PyNone}, c \in Counts,
        es \in SeqsUpTo(ElementDicts, MaxElements)}
    \cup {[name |-> "cars", status |-> "UPDATED", cardinality |-> ca, counts |-> c,
           hasElements |-> FALSE, elements |-> <<>>] :
             ca \in {"ONE", "one", "MANY", PyNone}, c \in Counts}

\* A node of the DiffTree response.
NodeDicts ==
    [hasAttributes : BOOLEAN, attributes : SeqsUpTo(AttributeDicts, 1),
     hasRelationships : BOOLEAN, relationships : SeqsUpTo(RelationshipDicts, 1)]

\* summary={"added": ..., "removed": ..., "updated": ...}
Summary(counts) ==
    [added |-> IntOrZero(counts.num_added),
     removed |-> IntOrZero(counts.num_removed),
     updated |-> IntOrZero(counts.num_updated)]

\* lines 81-90
AttributeDiff(attr_dict) ==
    [action |-> Str(attr_dict.status), element_type |-> "ATTRIBUTE",
     name |-> Str(attr_dict.name), summary |-> Summary(attr_dict.counts)]

\* line 94
IsCardinalityOne(relationship_dict) == Upper(Str(relationship_dict.cardinality)) = "ONE"

\* lines 108-116
PeerDiff(element_dict) ==
    [action |-> Str(element_dict.status), summary |-> Summary(element_dict.counts)]

\* A test that gives peers to every relationship that lists sub-elements.
GetsPeersWheneverListed(relationship_dict) == relationship_dict.hasElements

\* line 105: not is_cardinality_one and "elements" in relationship_dict
GetsPeers(relationship_dict) ==
    ~IsCardinalityOne(relationship_dict) /\ relationship_dict.hasElements

\* lines 94-119
RelationshipDiff(relationship_dict) ==
    LET relationship_diff ==
            [action |-> Str(relationship_dict.status),
             element_type |-> IF IsCardinalityOne(relationship_dict)
                              THEN "RELATIONSHIP_ONE" ELSE "RELATIONSHIP_MANY",
             name |-> Str(relationship_dict.name),
             summary |-> Summary(relationship_dict.counts)]
    IN  IF GetsPeers(relationship_dict)
        THEN [k \in DOMAIN relationship_diff \cup {"peers"} |->
                 IF k = "peers"
                 THEN [i \in 1..Len(relationship_dict.elements) |->
                          PeerDiff(relationship_dict.elements[i])]
                 ELSE relationship_diff[k]]
        ELSE relationship_diff

\* lines 78-119: element_diffs, the attributes first, then the relationships.
ElementDiffs(nd) ==
    (IF nd.hasAttributes
     THEN [i \in 1..Len(nd.attributes) |-> AttributeDiff(nd.attributes[i])] ELSE <<>>)
    \o (IF nd.hasRelationships
        THEN [i \in 1..Len(nd.relationships) |-> RelationshipDiff(nd.relationships[i])]
        ELSE <<>>)

NoNodeDict ==
    [hasAttributes |-> FALSE, attributes |-> <<>>, hasRelationships |-> FALSE,
     relationships |-> <<>>]

DInit ==
    /\ dpc = "idle"
    /\ node_dict = NoNodeDict
    /\ node_diff = <<>>

\* diff_tree_node_to_node_diff(node_dict, branch_name) on a node of the
\* response (client.py 1032-1034).
DiffTreeNodeToNodeDiff ==
    /\ dpc = "idle"
    /\ \E nd \in NodeDicts :
          /\ (~nd.hasAttributes => nd.attributes = <<>>)
          /\ (~nd.hasRelationships => nd.relationships = <<>>)
          /\ node_dict' = nd
          /\ node_diff' = ElementDiffs(nd)
    /\ dpc' = "done"
    /\ UNCHANGED exceptDiff

\* The NodeDiff has gone to the caller.
DiffEnds ==
    /\ dpc = "done"
    /\ dpc' = "idle"
    /\ node_dict' = NoNodeDict
    /\ node_diff' = <<>>
    /\ UNCHANGED exceptDiff

DNext ==
    \/ DiffTreeNodeToNodeDiff
    \/ DiffEnds

\* ======================================================================
\* The asynchronous and the synchronous client side by side
\* (InfrahubClient: client.py 79-90, 429-485, 638-736, 742-817, 821-840,
\* 866-951; InfrahubClientSync: 93-104, 1459-1534, 1687-1785, 1895-1951,
\* 2357-2374, 2383-2468).  Each client is a record; the two are given the
\* same calls and the same answers of the server, step by step.
\* ======================================================================

\* The tokens the server can hand out; the empty string of a client that
\* holds none.
Tokens == {"t1", "t2"}
NoToken == ""

\* The static API key of the configuration (Config.api_token); the empty
\* string of a configuration without one.
ApiTokens == {"", "key"}

\* A request as the server sees it: its endpoint, the token of its
\* Authorization header and its X-INFRAHUB-KEY header.
NoRequest == [to |-> "none", auth |-> NoToken, key |-> ""]

\* The tokens of a client, or of the answer to a login or refresh exchange.
NoTokens == [access |-> NoToken, refresh |-> NoToken]

\* A client after construction (BaseClient.__init__, lines 110-145): no
\* tokens, no Authorization header, no API key yet, an empty store, no call
\* running.
NewClient ==
    [pc |-> "idle", call |-> "none", refresh |-> FALSE, raise_for_error |-> TRUE,
     retry |-> TRUE, resp |-> NoResponse, response |-> NoResponse, phase |-> 1,
     exc |-> NoException, attempts |-> 0,
     access_token |-> NoToken, refresh_token |-> NoToken, authorization |-> NoToken,
     headers |-> NoToken, sent |-> NoRequest, store |-> {},
     queries |-> <<>>, outcome |-> "none", errors |-> <<>>, value |-> <<>>,
     x_infrahub_key |-> "",
     \* history of the login() call the user is running
     held |-> NoTokens,            \* the tokens held when it began
     granted |-> NoTokens,         \* the tokens its last successful exchange gave
     refreshAnswer |-> NoResponse, \* the answer to its /api/auth/refresh
     \* history of the running execute_graphql() call
     relogins |-> 0,               \* login(refresh=True) calls of the wrapper
     replays |-> 0,                \* requests sent again by the wrapper
     attemptRelogins |-> 0,        \* the same two, in this iteration of the loop
     attemptReplays |-> 0]

\* What a step is given: the call to start, or the server's answer to the
\* request the step sends, with the tokens a successful exchange returns.
NoInput ==
    [op |-> "none", flag |-> FALSE, answer |-> NoResponse, access |-> NoToken,
     refresh |-> NoToken, items |-> <<>>, off |-> None, lim |-> None,
     populate |-> FALSE, failPage |-> 0]

\* The server's window [o, o + l) of the matching nodes.
Window(items, o, l) == SubSeq(items, Min(o, Len(items)) + 1, Min(o + l, Len(items)))

\* The node objects hydrated from a window of ids.
NodesOf(ids) == [i \in 1..Len(ids) |-> [id |-> ids[i]]]

\* ------------------------------------------------------- InfrahubClient
\* filters(), lines 683-725: the paging loop over the server's answers; the
\* request of page failPage raises.
RECURSIVE AsyncFiltersPages(_, _, _, _, _, _)
AsyncFiltersPages(items, off, lim, failPage, page_no, acc) ==
    LET page_offset == (page_no - 1) * pagination_size
        qo == IF off = None \/ off = 0 THEN page_offset ELSE off
        ql == IF lim = None \/ lim = 0 THEN pagination_size ELSE lim
        sent == Append(acc.queries, <<qo, ql>>)
        fetched == acc.nodes \o NodesOf(Window(items, qo, ql))
        remaining_items == Len(items) - (page_offset + pagination_size)
    IN  IF failPage = page_no
        THEN [outcome |-> "raised", nodes |-> acc.nodes, queries |-> sent]
        ELSE IF remaining_items < 0 \/ off # None \/ lim # None
        THEN [outcome |-> "returned", nodes |-> fetched, queries |-> sent]
        ELSE AsyncFiltersPages(items, off, lim, failPage, page_no + 1,
                               [nodes |-> fetched, queries |-> sent])

\* filters(), lines 727-736: the store is filled when asked to, the nodes are
\* returned.
AsyncFilters(c, in) ==
    LET run == AsyncFiltersPages(in.items, in.off, in.lim, in.failPage, 1,
                                 [nodes |-> <<>>, queries |-> <<>>])
    IN  [c EXCEPT !.pc = "done", !.call = "filters", !.queries = run.queries,
                  !.outcome = run.outcome,
                  !.value = IF run.outcome = "returned" THEN run.nodes ELSE <<>>,
                  !.store = IF run.outcome = "returned" /\ in.populate
                            THEN StoreAll(c.store, run.nodes) ELSE c.store]

\* get(id=..., raise_when_missing=flag), lines 446-485: filters() on the id,
\* then the result by the number of matches.
AsyncGet(c, in) ==
    LET found == AsyncFilters(c, [in EXCEPT !.off = None, !.lim = None])
        found_nodes == found.value
    IN  IF found.outcome # "returned" THEN [found EXCEPT !.call = "get"]
        ELSE IF Len(found_nodes) = 0 /\ in.flag
        THEN [found EXCEPT !.call = "get", !.outcome = "NodeNotFoundError", !.value = <<>>]
        ELSE IF Len(found_nodes) = 0 /\ ~in.flag
        THEN [found EXCEPT !.call = "get", !.value = <<>>]
        ELSE IF Len(found_nodes) > 1
        THEN [found EXCEPT !.call = "get", !.outcome = "IndexError", !.value = <<>>]
        ELSE [found EXCEPT !.call = "get", !.value = <<found_nodes[1]>>]

\* execute_graphql(raise_for_error=flag), lines 769-783.
AsyncExecuteGraphql(c, in) ==
    [c EXCEPT !.pc = "while", !.call = "execute_graphql", !.raise_for_error = in.flag,
              !.retry = TRUE, !.resp = NoResponse, !.headers = c.authorization]

\* login(refresh=flag) called by the user, line 918.
AsyncLoginCall(c, in) ==
    [c EXCEPT !.pc = "login", !.call = "login", !.refresh = in.flag,
              !.held = [access |-> c.access_token, refresh |-> c.refresh_token]]

\* A login() that asks the server for a token on every call.
AsyncLoginReturnsAtOnceKeyOnly(c) == ~password_authentication

\* login(refresh=...), lines 919-923: nothing to do without password
\* authentication, or with an access token when no refresh is asked for.
AsyncLoginReturnsAtOnce(c) ==
    ~password_authentication \/ (c.access_token # NoToken /\ ~c.refresh)

\* A _post whose caller's headers win over the client's.
AsyncPostHeadersCallerFirst(c) ==
    IF c.headers # NoToken THEN c.headers ELSE c.authorization

\* _post, lines 833-835: headers.update(base_headers) - the Authorization of
\* self.headers replaces the one of the headers the caller passed.
AsyncPostHeaders(c) ==
    IF c.authorization # NoToken THEN c.authorization ELSE c.headers

\* A wrapper that tests the answer of the replay like the first answer.
AsyncNextAfterResponseRecheck(ph) == "wrapper"

\* handle_relogin wrapper: the answer of the first call of func is tested
\* (line 83), the answer of the replay is returned as it is (line 87).
AsyncNextAfterResponse(ph) == IF ph = 1 THEN "wrapper" ELSE "returned"

\* login() returns: to the user, to the wrapper (line 86, which calls func
\* again, line 87) or to _post (line 831).
AsyncLoginReturns(c) ==
    IF c.call = "login" THEN [c EXCEPT !.pc = "done", !.outcome = "returned"]
    ELSE IF c.refresh
    THEN [c EXCEPT !.phase = 2, !.refresh = FALSE, !.pc = "login",
                   !.granted = NoTokens, !.refreshAnswer = NoResponse]
    ELSE [c EXCEPT !.pc = "request", !.granted = NoTokens, !.refreshAnswer = NoResponse]

\* An exception leaves login / _post: to the user of login(), or to the try
\* block of execute_graphql (lines 793-807).
AsyncRaises(c, e) ==
    IF c.call = "login"
    THEN [c EXCEPT !.pc = "done", !.outcome = e.type, !.errors = e.message]
    ELSE [c EXCEPT !.pc = "except", !.exc = e, !.response = NoResponse,
                   !.granted = NoTokens, !.refreshAnswer = NoResponse]

\* handle_relogin, line 83-85.
AsyncIsExpiredSignature(r) ==
    r.status = 401 /\ \E i \in 1..Len(ErrorMessages(r)) : ErrorMessages(r)[i] = "Expired Signature"

\* _default_request_method, lines 894-897.
AsyncTransportException(r) ==
    IF r = NetworkError THEN Raise("ServerNotReachableError", NoResponse, <<>>)
    ELSE Raise("ServerNotResponsiveError", NoResponse, <<>>)

\* One step of the call the asynchronous client is running.
AsyncStep(c, in) ==
    CASE c.pc = "while" ->
           \* lines 784-787
           IF ~c.retry THEN [c EXCEPT !.pc = "after_loop"]
           ELSE IF c.attempts >= MaxAttempts THEN c
           ELSE [c EXCEPT !.retry = retry_on_failure, !.attempts = c.attempts + 1,
                          !.phase = 1, !.response = NoResponse, !.refresh = FALSE,
                          !.attemptRelogins = 0, !.attemptReplays = 0,
                          !.pc = "login"]
      [] c.pc = "login" ->
           \* lines 919-924
           IF AsyncLoginReturnsAtOnce(c) THEN AsyncLoginReturns(c)
           ELSE IF c.refresh_token # NoToken /\ c.refresh THEN [c EXCEPT !.pc = "refresh_login"]
           ELSE [c EXCEPT !.pc = "full_login"]
      [] c.pc = "refresh_login" ->
           \* lines 901-916 and 925-936
           LET d == [c EXCEPT !.sent = [to |-> "refresh", auth |-> c.refresh_token,
                                        key |-> ""],
                              !.refreshAnswer = in.answer]
           IN  IF in.answer \in {NetworkError, ReadTimeout}
               THEN AsyncRaises(d, AsyncTransportException(in.answer))
               ELSE IF IsSuccess(in.answer.status)
               THEN AsyncLoginReturns([d EXCEPT !.granted = [access |-> in.access,
                                                             refresh |-> NoToken],
                                                !.access_token = in.access,
                                                !.authorization = in.access])
               ELSE IF in.answer.status = 401 THEN [d EXCEPT !.pc = "full_login"]
               ELSE IF in.answer.body.hasErrors
               THEN AsyncRaises(d, Raise("AuthenticationError", in.answer,
                                         Join(ErrorMessages(in.answer))))
               ELSE AsyncRaises(d, Raise("TypeError", in.answer, <<>>))
      [] c.pc = "full_login" ->
           \* lines 938-951
           LET d == [c EXCEPT !.sent = [to |-> "login", auth |-> NoToken, key |-> ""]]
           IN  IF in.answer \in {NetworkError, ReadTimeout}
               THEN AsyncRaises(d, AsyncTransportException(in.answer))
               ELSE IF IsSuccess(in.answer.status)
               THEN AsyncLoginReturns([d EXCEPT !.granted = [access |-> in.access,
                                                             refresh |-> in.refresh],
                                                !.access_token = in.access,
                                                !.refresh_token = in.refresh,
                                                !.authorization = in.access])
               ELSE AsyncRaises(d, Raise("HTTPStatusError", in.answer, <<>>))
      [] c.pc = "request" ->
           \* _post lines 833-839: headers.update(base_headers), then the request
           LET auth == AsyncPostHeaders(c)
               again == IF c.phase = 2 THEN 1 ELSE 0
               d == [c EXCEPT !.headers = auth,
                              !.sent = [to |-> "graphql", auth |-> auth,
                                        key |-> c.x_infrahub_key],
                              !.replays = c.replays + again,
                              !.attemptReplays = c.attemptReplays + again]
           IN  IF in.answer \in {NetworkError, ReadTimeout}
               THEN AsyncRaises(d, AsyncTransportException(in.answer))
               ELSE [d EXCEPT !.response = in.answer,
                              !.pc = AsyncNextAfterResponse(c.phase)]
      [] c.pc = "wrapper" ->
           \* handle_relogin, lines 83-88
           IF AsyncIsExpiredSignature(c.response)
           THEN [c EXCEPT !.refresh = TRUE, !.pc = "login",
                          !.relogins = c.relogins + 1,
                          !.attemptRelogins = c.attemptRelogins + 1]
           ELSE [c EXCEPT !.pc = "returned"]
      [] c.pc = "returned" ->
           \* lines 787-792
           IF c.raise_for_error /\ ~IsSuccess(c.response.status)
           THEN [c EXCEPT !.resp = c.response, !.pc = "except",
                          !.exc = Raise("HTTPStatusError", c.response, <<>>)]
           ELSE [c EXCEPT !.resp = c.response, !.retry = FALSE, !.pc = "while"]
      [] c.pc = "except" ->
           \* lines 793-807
           IF c.exc.type = "ServerNotReachableError"
           THEN IF c.retry THEN [c EXCEPT !.pc = "sleep", !.exc = NoException]
                ELSE [c EXCEPT !.pc = "done", !.outcome = "ServerNotReachableError",
                               !.exc = NoException]
           ELSE IF c.exc.type = "HTTPStatusError"
           THEN IF c.exc.response.status \in {401, 403}
                THEN [c EXCEPT !.pc = "done", !.outcome = "AuthenticationError",
                               !.errors = Join(ErrorMessages(c.exc.response)),
                               !.exc = NoException]
                ELSE [c EXCEPT !.pc = "while", !.exc = NoException]
           ELSE [c EXCEPT !.pc = "done", !.outcome = c.exc.type, !.errors = c.exc.message,
                          !.exc = NoException]
      [] c.pc = "sleep" ->
           \* line 798: await asyncio.sleep(delay=self.retry_delay)
           [c EXCEPT !.pc = "while"]
      [] c.pc = "after_loop" ->
           \* lines 809-817
           IF c.resp = NoResponse THEN [c EXCEPT !.pc = "done", !.outcome = "Error"]
           ELSE IF c.resp.body.hasErrors
           THEN [c EXCEPT !.pc = "done", !.outcome = "GraphQLError",
                          !.errors = c.resp.body.errors]
           ELSE IF c.resp.body.data THEN [c EXCEPT !.pc = "done", !.outcome = "returned"]
           ELSE [c EXCEPT !.pc = "done", !.outcome = "KeyError"]
      [] c.pc = "done" ->
           \* the call is over: its locals are dropped, the client lives on
           [NewClient EXCEPT !.access_token = c.access_token,
                             !.refresh_token = c.refresh_token,
                             !.authorization = c.authorization, !.store = c.store,
                             !.x_infrahub_key = c.x_infrahub_key]
      [] OTHER -> c

\* --------------------------------------------------- InfrahubClientSync
\* filters(), lines 1732-1774: the paging loop over the server's answers; the
\* request of page failPage raises.
RECURSIVE SyncFiltersPages(_, _, _, _, _, _)
SyncFiltersPages(items, off, lim, failPage, page_no, acc) ==
    LET page_offset == (page_no - 1) * pagination_size
        qo == IF off = None \/ off = 0 THEN page_offset ELSE off
        ql == IF lim = None \/ lim = 0 THEN pagination_size ELSE lim
        sent == Append(acc.queries, <<qo, ql>>)
        fetched == acc.nodes \o NodesOf(Window(items, qo, ql))
        remaining_items == Len(items) - (page_offset + pagination_size)
    IN  IF failPage = page_no
        THEN [outcome |-> "raised", nodes |-> acc.nodes, queries |-> sent]
        ELSE IF remaining_items < 0 \/ off # None \/ lim # None
        THEN [outcome |-> "returned", nodes |-> fetched, queries |-> sent]
        ELSE SyncFiltersPages(items, off, lim, failPage, page_no + 1,
                               [nodes |-> fetched, queries |-> sent])

\* filters(), lines 1776-1779: every node with an id is written to the store
\* under its id.
RECURSIVE SyncStoreAll(_, _)
SyncStoreAll(st, ns) ==
    IF ns = <<>> THEN st
    ELSE SyncStoreAll(IF Head(ns).id # EmptyId THEN StoreSet(st, Head(ns).id, Head(ns)) ELSE st,
                      Tail(ns))

\* filters(), lines 1776-1785: the store is filled when asked to, the nodes are
\* returned.
SyncFilters(c, in) ==
    LET run == SyncFiltersPages(in.items, in.off, in.lim, in.failPage, 1,
                                 [nodes |-> <<>>, queries |-> <<>>])
    IN  [c EXCEPT !.pc = "done", !.call = "filters", !.queries = run.queries,
                  !.outcome = run.outcome,
                  !.value = IF run.outcome = "returned" THEN run.nodes ELSE <<>>,
                  !.store = IF run.outcome = "returned" /\ in.populate
                            THEN SyncStoreAll(c.store, run.nodes) ELSE c.store]

\* get(id=..., raise_when_missing=flag), lines 1912-1951: filters() on the id,
\* then the result by the number of matches.
SyncGet(c, in) ==
    LET found == SyncFilters(c, [in EXCEPT !.off = None, !.lim = None])
        found_nodes == found.value
    IN  IF found.outcome # "returned" THEN [found EXCEPT !.call = "get"]
        ELSE IF Len(found_nodes) = 0 /\ in.flag
        THEN [found EXCEPT !.call = "get", !.outcome = "NodeNotFoundError", !.value = <<>>]
        ELSE IF Len(found_nodes) = 0 /\ ~in.flag
        THEN [found EXCEPT !.call = "get", !.value = <<>>]
        ELSE IF Len(found_nodes) > 1
        THEN [found EXCEPT !.call = "get", !.outcome = "IndexError", !.value = <<>>]
        ELSE [found EXCEPT !.call = "get", !.value = <<found_nodes[1]>>]

\* execute_graphql(raise_for_error=flag), lines 1486-1500.
SyncExecuteGraphql(c, in) ==
    [c EXCEPT !.pc = "while", !.call = "execute_graphql", !.raise_for_error = in.flag,
              !.retry = TRUE, !.resp = NoResponse, !.headers = c.authorization]

\* login(refresh=flag) called by the user, line 2435.
SyncLoginCall(c, in) ==
    [c EXCEPT !.pc = "login", !.call = "login", !.refresh = in.flag,
              !.held = [access |-> c.access_token, refresh |-> c.refresh_token]]

\* A login() that asks the server for a token on every call.
SyncLoginReturnsAtOnceKeyOnly(c) == ~password_authentication

\* login(refresh=...), lines 2436-2440: nothing to do without password
\* authentication, or with an access token when no refresh is asked for.
SyncLoginReturnsAtOnce(c) ==
    ~password_authentication \/ (c.access_token # NoToken /\ ~c.refresh)

\* A _post whose caller's headers win over the client's.
SyncPostHeadersCallerFirst(c) ==
    IF c.headers # NoToken THEN c.headers ELSE c.authorization

\* _post, lines 2368-2370: headers.update(base_headers) - the Authorization of
\* self.headers replaces the one of the headers the caller passed.
SyncPostHeaders(c) ==
    IF c.authorization # NoToken THEN c.authorization ELSE c.headers

\* A wrapper that tests the answer of the replay like the first answer.
SyncNextAfterResponseRecheck(ph) == "wrapper"

\* handle_relogin_sync wrapper: the answer of the first call of func is tested
\* (line 97), the answer of the replay is returned as it is (line 101).
SyncNextAfterResponse(ph) == IF ph = 1 THEN "wrapper" ELSE "returned"

\* login() returns: to the user, to the wrapper (line 100, which calls func
\* again, line 101) or to _post (line 2366).
SyncLoginReturns(c) ==
    IF c.call = "login" THEN [c EXCEPT !.pc = "done", !.outcome = "returned"]
    ELSE IF c.refresh
    THEN [c EXCEPT !.phase = 2, !.refresh = FALSE, !.pc = "login",
                   !.granted = NoTokens, !.refreshAnswer = NoResponse]
    ELSE [c EXCEPT !.pc = "request", !.granted = NoTokens, !.refreshAnswer = NoResponse]

\* An exception leaves login / _post: to the user of login(), or to the try
\* block of execute_graphql (lines 1510-1524).
SyncRaises(c, e) ==
    IF c.call = "login"
    THEN [c EXCEPT !.pc = "done", !.outcome = e.type, !.errors = e.message]
    ELSE [c EXCEPT !.pc = "except", !.exc = e, !.response = NoResponse,
                   !.granted = NoTokens, !.refreshAnswer = NoResponse]

\* A wrapper that logs in again on every 401, whatever its message.
SyncIsExpiredSignatureAny401(r) == r.status = 401

\* handle_relogin_sync, lines 97-99.
SyncIsExpiredSignature(r) ==
    r.status = 401 /\ \E i \in 1..Len(ErrorMessages(r)) : ErrorMessages(r)[i] = "Expired Signature"

\* _default_request_method, lines 2411-2414.
SyncTransportException(r) ==
    IF r = NetworkError THEN Raise("ServerNotReachableError", NoResponse, <<>>)
    ELSE Raise("ServerNotResponsiveError", NoResponse, <<>>)

\* One step of the call the synchronous client is running.
SyncStep(c, in) ==
    CASE c.pc = "while" ->
           \* lines 1501-1504
           IF ~c.retry THEN [c EXCEPT !.pc = "after_loop"]
           ELSE IF c.attempts >= MaxAttempts THEN c
           ELSE [c EXCEPT !.retry = retry_on_failure, !.attempts = c.attempts + 1,
                          !.phase = 1, !.response = NoResponse, !.refresh = FALSE,
                          !.attemptRelogins = 0, !.attemptReplays = 0,
                          !.pc = "login"]
      [] c.pc = "login" ->
           \* lines 2436-2441
           IF SyncLoginReturnsAtOnce(c) THEN SyncLoginReturns(c)
           ELSE IF c.refresh_token # NoToken /\ c.refresh THEN [c EXCEPT !.pc = "refresh_login"]
           ELSE [c EXCEPT !.pc = "full_login"]
      [] c.pc = "refresh_login" ->
           \* lines 2418-2433 and 2442-2453
           LET d == [c EXCEPT !.sent = [to |-> "refresh", auth |-> c.refresh_token,
                                        key |-> ""],
                              !.refreshAnswer = in.answer]
           IN  IF in.answer \in {NetworkError, ReadTimeout}
               THEN SyncRaises(d, SyncTransportException(in.answer))
               ELSE IF IsSuccess(in.answer.status)
               THEN SyncLoginReturns([d EXCEPT !.granted = [access |-> in.access,
                                                             refresh |-> NoToken],
                                                !.access_token = in.access,
                                                !.authorization = in.access])
               ELSE IF in.answer.status = 401 THEN [d EXCEPT !.pc = "full_login"]
               ELSE IF in.answer.body.hasErrors
               THEN SyncRaises(d, Raise("AuthenticationError", in.answer,
                                         Join(ErrorMessages(in.answer))))
               ELSE SyncRaises(d, Raise("TypeError", in.answer, <<>>))
      [] c.pc = "full_login" ->
           \* lines 2455-2468
           LET d == [c EXCEPT !.sent = [to |-> "login", auth |-> NoToken, key |-> ""]]
           IN  IF in.answer \in {NetworkError, ReadTimeout}
               THEN SyncRaises(d, SyncTransportException(in.answer))
               ELSE IF IsSuccess(in.answer.status)
               THEN SyncLoginReturns([d EXCEPT !.granted = [access |-> in.access,
                                                             refresh |-> in.refresh],
                                                !.access_token = in.access,
                                                !.refresh_token = in.refresh,
                                                !.authorization = in.access])
               ELSE SyncRaises(d, Raise("HTTPStatusError", in.answer, <<>>))
      [] c.pc = "request" ->
           \* _post lines 2368-2374: headers.update(base_headers), then the request
           LET auth == SyncPostHeaders(c)
               again == IF c.phase = 2 THEN 1 ELSE 0
               d == [c EXCEPT !.headers = auth,
                              !.sent = [to |-> "graphql", auth |-> auth,
                                        key |-> c.x_infrahub_key],
                              !.replays = c.replays + again,
                              !.attemptReplays = c.attemptReplays + again]
           IN  IF in.answer \in {NetworkError, ReadTimeout}
               THEN SyncRaises(d, SyncTransportException(in.answer))
               ELSE [d EXCEPT !.response = in.answer,
                              !.pc = SyncNextAfterResponse(c.phase)]
      [] c.pc = "wrapper" ->
           \* handle_relogin_sync, lines 97-102
           IF SyncIsExpiredSignature(c.response)
           THEN [c EXCEPT !.refresh = TRUE, !.pc = "login",
                          !.relogins = c.relogins + 1,
                          !.attemptRelogins = c.attemptRelogins + 1]
           ELSE [c EXCEPT !.pc = "returned"]
      [] c.pc = "returned" ->
           \* lines 1504-1509
           IF c.raise_for_error /\ ~IsSuccess(c.response.status)
           THEN [c EXCEPT !.resp = c.response, !.pc = "except",
                          !.exc = Raise("HTTPStatusError", c.response, <<>>)]
           ELSE [c EXCEPT !.resp = c.response, !.retry = FALSE, !.pc = "while"]
      [] c.pc = "except" ->
           \* lines 1510-1524
           IF c.exc.type = "ServerNotReachableError"
           THEN IF c.retry THEN [c EXCEPT !.pc = "sleep", !.exc = NoException]
                ELSE [c EXCEPT !.pc = "done", !.outcome = "ServerNotReachableError",
                               !.exc = NoException]
           ELSE IF c.exc.type = "HTTPStatusError"
           THEN IF c.exc.response.status \in {401, 403}
                THEN [c EXCEPT !.pc = "done", !.outcome = "AuthenticationError",
                               !.errors = Join(ErrorMessages(c.exc.response)),
                               !.exc = NoException]
                ELSE [c EXCEPT !.pc = "while", !.exc = NoException]
           ELSE [c EXCEPT !.pc = "done", !.outcome = c.exc.type, !.errors = c.exc.message,
                          !.exc = NoException]
      [] c.pc = "sleep" ->
           \* line 1515: sleep(self.retry_delay)
           [c EXCEPT !.pc = "while"]
      [] c.pc = "after_loop" ->
           \* lines 1526-1534
           IF c.resp = NoResponse THEN [c EXCEPT !.pc = "done", !.outcome = "Error"]
           ELSE IF c.resp.body.hasErrors
           THEN [c EXCEPT !.pc = "done", !.outcome = "GraphQLError",
                          !.errors = c.resp.body.errors]
           ELSE IF c.resp.body.data THEN [c EXCEPT !.pc = "done", !.outcome = "returned"]
           ELSE [c EXCEPT !.pc = "done", !.outcome = "KeyError"]
      [] c.pc = "done" ->
           \* the call is over: its locals are dropped, the client lives on
           [NewClient EXCEPT !.access_token = c.access_token,
                             !.refresh_token = c.refresh_token,
                             !.authorization = c.authorization, !.store = c.store,
                             !.x_infrahub_key = c.x_infrahub_key]
      [] OTHER -> c

\* ------------------------------------------------- the two, side by side
\* Two clients of a configuration without an API key.
WInit ==
    /\ aclient = NewClient
    /\ sclient = NewClient

\* BaseClient.__init__, lines 136-137: the API key of the configuration, if
\* it has one, goes into the headers of the client.
WInitWithKey ==
    \E k \in ApiTokens :
        /\ aclient = [NewClient EXCEPT !.x_infrahub_key = k]
        /\ sclient = [NewClient EXCEPT !.x_infrahub_key = k]

\* The ids of the nodes the two clients are given: the empty id and one id.
TwinNodeIds == {EmptyId, 1}

\* The answers to a GraphQL request the two clients are given: every status,
\* with a body without errors or with one error message.
TwinResponses ==
    {[status |-> st, body |-> bd] :
        st \in Statuses,
        bd \in {b \in Bodies : b.errors \in {<<>>, <<ExpiredSignature>>, <<"Permission denied">>}}}

\* The server's answers to the request a step sends.
StepInputs(pc) ==
    IF pc \in {"refresh_login", "full_login"}
    THEN {[NoInput EXCEPT !.answer = r, !.access = a, !.refresh = f] :
            r \in AuthResponses \cup {NetworkError, ReadTimeout}, a \in Tokens, f \in Tokens}
    ELSE IF pc = "request"
    THEN {[NoInput EXCEPT !.answer = r] : r \in TwinResponses \cup {NetworkError, ReadTimeout}}
    ELSE {NoInput}

\* Both clients are given execute_graphql(raise_for_error=flag).
TwinExecuteGraphql ==
    /\ aclient.pc = "idle"
    /\ \E flag \in BOOLEAN :
          LET in == [NoInput EXCEPT !.op = "execute_graphql", !.flag = flag]
          IN  /\ aclient' = AsyncExecuteGraphql(aclient, in)
              /\ sclient' = SyncExecuteGraphql(sclient, in)
    /\ UNCHANGED exceptTwin

\* Both clients are given login(refresh=flag).
TwinLogin ==
    /\ aclient.pc = "idle"
    /\ \E flag \in BOOLEAN :
          LET in == [NoInput EXCEPT !.op = "login", !.flag = flag]
          IN  /\ aclient' = AsyncLoginCall(aclient, in)
              /\ sclient' = SyncLoginCall(sclient, in)
    /\ UNCHANGED exceptTwin

\* Both clients are given filters(offset=..., limit=..., populate_store=...)
\* and the same answers (or the same failure) of the server.
TwinFilters ==
    /\ aclient.pc = "idle"
    /\ \E items \in SeqsUpTo(TwinNodeIds, MaxStoreItems), off \in {None} \cup 0..MaxArg,
          lim \in {None} \cup 0..MaxArg, populate \in BOOLEAN, failPage \in 0..MaxStoreItems :
          LET in == [NoInput EXCEPT !.op = "filters", !.items = items, !.off = off,
                                    !.lim = lim, !.populate = populate,
                                    !.failPage = failPage]
          IN  /\ aclient' = AsyncFilters(aclient, in)
              /\ sclient' = SyncFilters(sclient, in)
    /\ UNCHANGED exceptTwin

\* Both clients are given get(id=..., raise_when_missing=flag,
\* populate_store=...).
TwinGet ==
    /\ aclient.pc = "idle"
    /\ \E items \in SeqsUpTo(TwinNodeIds, MaxStoreItems), flag \in BOOLEAN,
          populate \in BOOLEAN, failPage \in 0..MaxStoreItems :
          LET in == [NoInput EXCEPT !.op = "get", !.items = items, !.flag = flag,
                                    !.populate = populate, !.failPage = failPage]
          IN  /\ aclient' = AsyncGet(aclient, in)
              /\ sclient' = SyncGet(sclient, in)
    /\ UNCHANGED exceptTwin

\* Both clients take the next step of their call, on the same answer.
TwinStep ==
    /\ aclient.pc # "idle"
    /\ \E in \in StepInputs(aclient.pc) :
          /\ aclient' = AsyncStep(aclient, in)
          /\ sclient' = SyncStep(sclient, in)
    /\ UNCHANGED exceptTwin

WNext ==
    \/ TwinExecuteGraphql
    \/ TwinLogin
    \/ TwinFilters
    \/ TwinGet
    \/ TwinStep

\* ======================================================================
\* infrahubctl transform
\* (ctl/cli_commands.py 303-357, transforms.py 92-170, ctl/utils.py 46-99)
\* ======================================================================

\* What one run of the command is given and meets:
\*   list_available  --list was passed
\*   config          get_repository_config returns, or raises
\*   inConfig        python_transforms has an entry of the given name
\*   load            the import of the file, the lookup of the class and its
\*                   construction succeed, or raise
\*   stored          the server answers the stored query, or _post /
\*                   raise_for_status raise
\*   localQuery      the .gql file of the repository can be read, or not
\*   direct          execute_graphql on the local query returns, or raises
\*   run             transform(data) returns, or raises
\*   write           the result is serialised and written, or that raises
Commands ==
    [list_available : BOOLEAN,
     config : {"ok", "FileNotValidError"},
     inConfig : BOOLEAN,
     load : {"ok", "FileNotFoundError", "AttributeError", "ValueError"},
     stored : {"ok", "HTTPStatusError", "ServerNotReachableError"},
     localQuery : {"ok", "FileNotFoundError"},
     direct : {"ok", "GraphQLError"},
     run : {"ok", "KeyError"},
     write : {"ok", "OSError"}]

NoCommand ==
    [list_available |-> FALSE, config |-> "ok", inConfig |-> FALSE, load |-> "ok",
     stored |-> "ok", localQuery |-> "ok", direct |-> "ok", run |-> "ok", write |-> "ok"]

\* An exception on its way out of transform(): typer.Exit carries a code.
NoCtlException == [type |-> "none", exit_code |-> None]
CtlRaise(t) == [type |-> t, exit_code |-> None]
TyperExit(code) == [type |-> "Exit", exit_code |-> code]

\* A handler that lets every exception but typer.Exit end the process well.
ExitCodeForLenient(e) == IF e.type = "Exit" THEN e.exit_code ELSE 0

\* handle_exception under catch_exception(exit_code=1), utils.py 46-72, 95: the
\* code of a typer.Exit is kept, every other exception ends with exit_code.
ExitCodeFor(e) == IF e.type = "Exit" THEN e.exit_code ELSE 1

\* get_transform_class_instance, transforms.py 156-170: FileNotFoundError and
\* AttributeError become InfrahubTransformNotFoundError, every other
\* exception leaves as it is.
GetTransformClassInstance(load) ==
    IF load \in {"FileNotFoundError", "AttributeError"}
    THEN "InfrahubTransformNotFoundError" ELSE load

\* collect_data, transforms.py 92-106: the stored query first; on its
\* HTTPStatusError the query of the repository is loaded and executed.
CollectData(c) ==
    IF c.stored = "ok" THEN "ok"
    ELSE IF c.stored # "HTTPStatusError" THEN c.stored
    ELSE IF c.localQuery # "ok" THEN c.localQuery
    ELSE c.direct

CInit ==
    /\ cpc = "idle"
    /\ cmd = NoCommand
    /\ cexc = NoCtlException
    /\ exit_code = None
    /\ responseObtained = FALSE
    /\ transformRan = FALSE

\* infrahubctl transform <name> [--list] is started.
CtlTransform ==
    /\ cpc = "idle"
    /\ cmd' \in Commands
    /\ cpc' = "begin"
    /\ UNCHANGED <<cexc, exit_code, responseObtained, transformRan>>
    /\ UNCHANGED exceptCtl

\* transform(), lines 318-323: the repository configuration is read; with
\* --list the transforms are listed and the command returns.
TransformBegin ==
    /\ cpc = "begin"
    /\ IF cmd.config # "ok" THEN cexc' = CtlRaise(cmd.config) /\ cpc' = "raised"
       ELSE IF cmd.list_available THEN cexc' = cexc /\ cpc' = "returned"
       ELSE cexc' = cexc /\ cpc' = "find"
    /\ UNCHANGED <<cmd, exit_code, responseObtained, transformRan>>
    /\ UNCHANGED exceptCtl

\* transform(), lines 326-335: the entry of the given name.
TransformFind ==
    /\ cpc = "find"
    /\ IF ~cmd.inConfig THEN cexc' = TyperExit(1) /\ cpc' = "raised"
       ELSE cexc' = cexc /\ cpc' = "load"
    /\ UNCHANGED <<cmd, exit_code, responseObtained, transformRan>>
    /\ UNCHANGED exceptCtl

\* transform(), lines 338-344: the instance of the transform class.
TransformLoad ==
    /\ cpc = "load"
    /\ LET loaded == GetTransformClassInstance(cmd.load)
       IN  IF loaded = "ok" THEN cexc' = cexc /\ cpc' = "collect"
           ELSE IF loaded = "InfrahubTransformNotFoundError"
           THEN cexc' = TyperExit(1) /\ cpc' = "raised"
           ELSE cexc' = CtlRaise(loaded) /\ cpc' = "raised"
    /\ UNCHANGED <<cmd, exit_code, responseObtained, transformRan>>
    /\ UNCHANGED exceptCtl

\* transform(), line 351 -> InfrahubTransform.run, transforms.py 120-124:
\* the data of the query is collected.
TransformCollectData ==
    /\ cpc = "collect"
    /\ IF CollectData(cmd) = "ok"
       THEN responseObtained' = TRUE /\ cexc' = cexc /\ cpc' = "run"
       ELSE responseObtained' = FALSE /\ cexc' = CtlRaise(CollectData(cmd)) /\ cpc' = "raised"
    /\ UNCHANGED <<cmd, exit_code, transformRan>>
    /\ UNCHANGED exceptCtl

\* InfrahubTransform.run, transforms.py 126-131: transform(data=unpacked).
TransformRun ==
    /\ cpc = "run"
    /\ IF cmd.run = "ok"
       THEN transformRan' = TRUE /\ cexc' = cexc /\ cpc' = "output"
       ELSE transformRan' = FALSE /\ cexc' = CtlRaise(cmd.run) /\ cpc' = "raised"
    /\ UNCHANGED <<cmd, exit_code, responseObtained>>
    /\ UNCHANGED exceptCtl

\* transform(), lines 353-357: the result is serialised and written.
TransformOutput ==
    /\ cpc = "output"
    /\ IF cmd.write = "ok" THEN cexc' = cexc /\ cpc' = "returned"
       ELSE cexc' = CtlRaise(cmd.write) /\ cpc' = "raised"
    /\ UNCHANGED <<cmd, exit_code, responseObtained, transformRan>>
    /\ UNCHANGED exceptCtl

\* catch_exception, utils.py 90-95: transform() returned (the process ends
\* with 0), or its exception goes to handle_exception.
CatchException ==
    /\ cpc \in {"returned", "raised"}
    /\ exit_code' = IF cpc = "returned" THEN 0 ELSE ExitCodeFor(cexc)
    /\ cpc' = "exited"
    /\ UNCHANGED <<cmd, cexc, responseObtained, transformRan>>
    /\ UNCHANGED exceptCtl

\* The process is gone; the next run starts afresh.
CtlEnds ==
    /\ cpc = "exited"
    /\ cpc' = "idle"
    /\ cmd' = NoCommand
    /\ cexc' = NoCtlException
    /\ exit_code' = None
    /\ responseObtained' = FALSE
    /\ transformRan' = FALSE
    /\ UNCHANGED exceptCtl

CNext ==
    \/ CtlTransform
    \/ TransformBegin
    \/ TransformFind
    \/ TransformLoad
    \/ TransformCollectData
    \/ TransformRun
    \/ TransformOutput
    \/ CatchException
    \/ CtlEnds

\* ======================================================================
\* infrahubctl object load: the order of the saves over a whole file
\* (ctl/object.py 43-48, ctl/menu.py 42-54, spec/object.py 19-112)
\* ======================================================================

\* The most records a file has, nested records included.
MaxRecords == 4

\* A file, as the list of its records in the order of the YAML text, each
\* with its nesting depth: 0 for an item of spec.data, d + 1 for a record
\* under the "data" of a relationship of a record of depth d.
ObjectFiles ==
    {f \in SeqsUpTo(0..(MaxRecords - 1), MaxRecords) :
        /\ Len(f) >= 1 => f[1] = 0
        /\ \A i \in 1..(Len(f) - 1) : f[i + 1] <= f[i] + 1}

\* The record a nested record lies under; 0 for an item of spec.data.
ParentOf(f, i) ==
    IF f[i] = 0 THEN 0
    ELSE CHOOSE j \in 1..(i - 1) :
            /\ f[j] = f[i] - 1
            /\ \A k \in (j + 1)..(i - 1) : f[k] >= f[i]

\* The records under i that come at or after j, in the order of the text.
RECURSIVE NestedFrom(_, _, _)
NestedFrom(f, i, j) ==
    IF j > Len(f) THEN <<>>
    ELSE (IF ParentOf(f, j) = i THEN <<j>> ELSE <<>>) \o NestedFrom(f, i, j + 1)

\* A loader that takes the nested records last to first.
NestedRecordsReversed(f, i) ==
    LET inOrder == NestedFrom(f, i, 1)
    IN  [k \in 1..Len(inOrder) |-> inOrder[Len(inOrder) + 1 - k]]

\* spec/object.py lines 69, 83 and 99 (ctl/object.py line 47 for i = 0): the
\* records the loop of record i goes through - its remaining relationships in
\* the order of the record's keys, the items of each in the order of the list.
NestedRecords(f, i) == NestedFrom(f, i, 1)

NoFrame == [record |-> 0, pending |-> <<>>]

OInit ==
    /\ opc = "idle"
    /\ ofile = <<>>
    /\ ostack = <<>>
    /\ current = 0
    /\ saved = <<>>
    /\ attempted = <<>>
    /\ failedAt = 0
    /\ oOutcome = "none"

\* An exception leaves create_node, every create_node above it and load():
\* none of them has a try block.
ObjectLoadRaises(at) ==
    /\ opc' = "done"
    /\ oOutcome' = at
    /\ failedAt' = current
    /\ ostack' = <<>>

\* ctl/object.py lines 43-46: the file is validated and its schema fetched
\* (either may raise); the loop over spec.data begins.
ObjectLoad ==
    /\ opc = "idle"
    /\ \E f \in ObjectFiles :
          /\ ofile' = f
          /\ \/ /\ opc' = "loop"
                /\ ostack' = <<[record |-> 0, pending |-> NestedRecords(f, 0)]>>
                /\ oOutcome' = "none"
             \/ /\ opc' = "done"
                /\ ostack' = <<>>
                /\ oOutcome' = "file"
    /\ UNCHANGED <<current, saved, attempted, failedAt>>
    /\ UNCHANGED exceptObjectLoad

\* ctl/object.py lines 47-48, spec/object.py lines 89-108: the innermost loop
\* calls create_node on its next record; a loop that is through returns to
\* the loop it was called from, the outermost one ends the run.
ObjectLoopNext ==
    /\ opc = "loop"
    /\ LET top == ostack[Len(ostack)]
       IN  IF top.pending # <<>>
           THEN /\ current' = Head(top.pending)
                /\ attempted' = Append(attempted, Head(top.pending))
                /\ ostack' = [ostack EXCEPT ![Len(ostack)].pending = Tail(top.pending)]
                /\ opc' = "validate"
                /\ UNCHANGED oOutcome
           ELSE IF Len(ostack) > 1
           THEN /\ ostack' = SubSeq(ostack, 1, Len(ostack) - 1)
                /\ UNCHANGED <<current, attempted, opc, oOutcome>>
           ELSE /\ ostack' = <<>>
                /\ opc' = "done"
                /\ oOutcome' = "returned"
                /\ UNCHANGED <<current, attempted>>
    /\ UNCHANGED <<ofile, saved, failedAt>>
    /\ UNCHANGED exceptObjectLoad

\* spec/object.py lines 29-62: the checks made before the node is created
\* raise ValueError, or the payload is built.
ObjectCreateNodeValidate ==
    /\ opc = "validate"
    /\ \/ ObjectLoadRaises("validation")
       \/ /\ opc' = "save"
          /\ UNCHANGED <<ostack, failedAt, oOutcome>>
    /\ UNCHANGED <<ofile, current, saved, attempted>>
    /\ UNCHANGED exceptObjectLoad

\* spec/object.py lines 64-86: client.create and node.save raise, or the node
\* is saved; then the remaining relationships are resolved, which raises
\* (lines 71-79, 109-112) or begins the loop over the nested records.
ObjectCreateNodeSave ==
    /\ opc = "save"
    /\ \/ /\ ObjectLoadRaises("save")
          /\ UNCHANGED saved
       \/ /\ saved' = Append(saved, current)
          /\ \/ ObjectLoadRaises("relationship")
             \/ /\ ostack' = Append(ostack, [record |-> current,
                                             pending |-> NestedRecords(ofile, current)])
                /\ opc' = "loop"
                /\ UNCHANGED <<failedAt, oOutcome>>
    /\ UNCHANGED <<ofile, current, attempted>>
    /\ UNCHANGED exceptObjectLoad

\* The process is over; nothing of the run is kept but what the server has.
ObjectLoadEnds ==
    /\ opc = "done"
    /\ opc' = "idle"
    /\ ofile' = <<>>
    /\ ostack' = <<>>
    /\ current' = 0
    /\ saved' = <<>>
    /\ attempted' = <<>>
    /\ failedAt' = 0
    /\ oOutcome' = "none"
    /\ UNCHANGED exceptObjectLoad

ONext ==
    \/ ObjectLoad
    \/ ObjectLoopNext
    \/ ObjectCreateNodeValidate
    \/ ObjectCreateNodeSave
    \/ ObjectLoadEnds

\* ======================================================================
\* Specifications
\* ======================================================================

\* filters() / all() / get() on a client whose transport is left at rest.
QueryInit ==
    /\ QInit /\ TInit /\ BInit /\ SInit /\ LInit /\ DInit /\ WInit /\ CInit /\ OInit
    /\ ~retry_on_failure /\ ~password_authentication
    /\ max_concurrent_execution = 1

QNext ==
    \/ CallFilters
    \/ CallAll
    \/ CallGet
    \/ GetSchema
    \/ GetBuildFilters
    \/ FiltersSchema
    \/ FetchPage
    \/ FetchPageRaises
    \/ FiltersReturn
    \/ GetReturn
    \/ CallEnds

SpecQuery == QueryInit /\ [][QNext]_vars

\* filters(populate_store=True) on a client whose store lives across calls.
StoreNext ==
    \/ CallFiltersPopulateStore
    \/ FiltersSchema
    \/ FetchPage
    \/ FetchPageRaises
    \/ FiltersReturn
    \/ CallEnds

SpecStore == QueryInit /\ [][StoreNext]_vars

\* filters() with and without populate_store on a client whose store lives
\* across calls.
StoreFrameNext ==
    \/ CallFiltersStoreOrNot
    \/ FiltersSchema
    \/ FetchPage
    \/ FetchPageRaises
    \/ FiltersReturn
    \/ CallEnds

SpecStoreFrame == QueryInit /\ [][StoreFrameNext]_vars


\* execute_graphql() on a client that runs no paged query.
TransportInit ==
    /\ QInit /\ TInit /\ BInit /\ SInit /\ LInit /\ DInit /\ WInit /\ CInit /\ OInit
    /\ pagination_size = 1 /\ max_concurrent_execution = 1

SpecTransport == TransportInit /\ [][TNext]_vars

\* The batch runner on a client that runs no other call.
BatchInit ==
    /\ QInit /\ TInit /\ BInit /\ SInit /\ LInit /\ DInit /\ WInit /\ CInit /\ OInit
    /\ pagination_size = 1 /\ ~retry_on_failure /\ ~password_authentication

SpecBatch == BatchInit /\ [][BNext]_vars

\* The object loader on a client that runs no other call.
LoaderInit ==
    /\ QInit /\ TInit /\ BInit /\ SInit /\ LInit /\ DInit /\ WInit /\ CInit /\ OInit
    /\ pagination_size = 1 /\ ~retry_on_failure /\ ~password_authentication
    /\ max_concurrent_execution = 1

SpecLoader == LoaderInit /\ [][LNext]_vars

\* The diff summary on a client that runs no other call.
DiffInit ==
    /\ QInit /\ TInit /\ BInit /\ SInit /\ LInit /\ DInit /\ WInit /\ CInit /\ OInit
    /\ pagination_size = 1 /\ ~retry_on_failure /\ ~password_authentication
    /\ max_concurrent_execution = 1

SpecDiff == DiffInit /\ [][DNext]_vars

\* The synchronous client: create_batch next to get_diff_summary, which both
\* clients have.
SyncNext ==
    \/ CreateBatchSync
    \/ DiffTreeNodeToNodeDiff
    \/ DiffEnds

SpecSyncClient == DiffInit /\ [][SyncNext]_vars

\* The two clients, given the same configuration, calls and server answers;
\* pages of one node, so that every list of two nodes takes several pages.
TwinInit ==
    /\ QInit /\ TInit /\ BInit /\ SInit /\ LInit /\ DInit /\ WInitWithKey /\ CInit /\ OInit
    /\ pagination_size = 1 /\ max_concurrent_execution = 1

SpecTwin == TwinInit /\ [][WNext]_vars

\* infrahubctl transform on its own.
CtlInit ==
    /\ QInit /\ TInit /\ BInit /\ SInit /\ LInit /\ DInit /\ WInit /\ CInit /\ OInit
    /\ pagination_size = 1 /\ ~retry_on_failure /\ ~password_authentication
    /\ max_concurrent_execution = 1

SpecCtl == CtlInit /\ [][CNext]_vars

\* infrahubctl object load on its own.
ObjectLoadInit ==
    /\ QInit /\ TInit /\ BInit /\ SInit /\ LInit /\ DInit /\ WInit /\ CInit /\ OInit
    /\ pagination_size = 1 /\ ~retry_on_failure /\ ~password_authentication
    /\ max_concurrent_execution = 1

SpecObjectLoad == ObjectLoadInit /\ [][ONext]_vars

\* ======================================================================
\* Properties of filters() / all() / get()                     (SpecQuery)
\* ======================================================================

\* filters() has returned its list (to the caller, or to get()) after paging
\* with neither offset nor limit.
DefaultPagingReturned ==
    /\ callName \in {"filters", "all", "get"}
    /\ offset = None /\ limit = None
    /\ \/ qpc = "get_result"
       \/ qpc = "done" /\ qOutcome \notin {"raised", "ValueError"}

\* ceil(n / p) for p >= 1
CeilDiv(n, p) == (n + p - 1) \div p

\* C1: without offset and limit, filters() returns exactly the N nodes the
\* server holds for the filter: the concatenation of the fetched pages in fetch
\* order, every page in server order, nothing dropped, duplicated,
\* de-duplicated or re-ordered.
C1_FiltersReturnsEveryNode ==
    DefaultPagingReturned =>
        /\ Len(results) = Len(srvItems)
        /\ \A i \in 1..Len(srvItems) : results[i].id = srvItems[i]
        /\ Len(results) = Len(Flatten(pages))
        /\ \A i \in 1..Len(results) : results[i].id = Flatten(pages)[i].node.id

\* C1 witness: a result of four nodes that needed more than two pages and in
\* which the server repeated an id.
C1_Witness ==
    /\ DefaultPagingReturned
    /\ callName = "filters"
    /\ Len(srvItems) = 4
    /\ Len(pages) >= 3
    /\ srvItems[1] = srvItems[3]

\* C2 (as claimed): without offset and limit, filters() performs exactly
\* ceil(N / P) page fetches before it returns.
C2_CeilPageFetches ==
    DefaultPagingReturned => Len(queries) = CeilDiv(Len(srvItems), pagination_size)

\* C2 (amended): without offset and limit, filters() performs exactly
\* floor(N / P) + 1 page fetches before it returns: one more than ceil(N / P)
\* when N is a multiple of P (N = 0 included), ceil(N / P) otherwise.
C2_FloorPlusOnePageFetches ==
    DefaultPagingReturned => Len(queries) = (Len(srvItems) \div pagination_size) + 1

\* C2 witness: N = 2P, three fetches, the last one of an empty page.
C2_Witness ==
    /\ DefaultPagingReturned
    /\ Len(srvItems) = 2 * pagination_size
    /\ Len(queries) = 3
    /\ pages[3] = <<>>

\* C3: when the caller passes an offset or a limit (any value, 0 included) to
\* filters() or all(), exactly one page fetch is made whatever count the
\* server reports: never a second one, and one by the time the call returns.
C3_ExplicitWindowOnePage ==
    (callName \in {"filters", "all"} /\ (offset # None \/ limit # None)) =>
        /\ Len(queries) <= 1
        /\ (qpc = "done" /\ qOutcome = "returned") => Len(queries) = 1

\* C3 witness: all(offset=0) has returned while the server reports more nodes
\* than one page holds.
C3_Witness ==
    /\ callName = "all"
    /\ offset = 0 /\ limit = None
    /\ qpc = "done" /\ qOutcome = "returned"
    /\ Len(srvItems) > 2 * pagination_size

\* get() got past the filter validation and its page fetches did not raise.
GetEvaluated ==
    /\ callName = "get"
    /\ qpc = "done"
    /\ filterKeys # {}
    /\ qOutcome # "raised"

\* C4: get() with a non-empty filter set: zero matches raise NodeNotFoundError
\* when raise_when_missing is true and return None otherwise; two or more
\* matches always raise; exactly one match returns that node.
C4_GetResultByMatchCount ==
    GetEvaluated =>
        /\ (Len(srvItems) = 0 /\ raise_when_missing) => qOutcome = "NodeNotFoundError"
        /\ (Len(srvItems) = 0 /\ ~raise_when_missing) =>
               (qOutcome = "returned" /\ qValue = <<>>)
        /\ Len(srvItems) >= 2 => qOutcome = "IndexError"
        /\ Len(srvItems) = 1 =>
               (qOutcome = "returned" /\ Len(qValue) = 1 /\ qValue[1].id = srvItems[1])

\* C4 witness: three nodes match, spread over several pages, and
\* raise_when_missing is false.
C4_Witness ==
    /\ GetEvaluated
    /\ Len(srvItems) = 3
    /\ Len(queries) >= 2
    /\ ~raise_when_missing
    /\ qOutcome = "IndexError"

\* C5: get() without id, hfid and keyword filter ends with the validation
\* error and has made no network call at all: no page query and no schema
\* request.
C5_EmptyFilterSetNoNetworkCall ==
    (callName = "get" /\ getArgs = NoArgs /\ qpc = "done") =>
        /\ qOutcome = "ValueError"
        /\ Len(queries) = 0
        /\ schemaFetches = 0

\* ======================================================================
\* Properties of execute_graphql()                          (SpecTransport)
\* ======================================================================

\* ms joined by " | ", stated piece by piece.
IsJoinOf(joined, ms) ==
    /\ Len(joined) = IF Len(ms) = 0 THEN 0 ELSE 2 * Len(ms) - 1
    /\ \A i \in 1..Len(ms) : joined[2 * i - 1] = ms[i]
    /\ \A i \in 1..(Len(ms) - 1) : joined[2 * i] = " | "

\* The "errors" messages of a response, read off the body.
MessagesOf(r) == IF r.body.hasErrors THEN r.body.errors ELSE <<>>

\* r is a 401 with "Expired Signature" among its messages.
ExpiredCase(r) ==
    r.status = 401 /\ \E i \in 1..Len(MessagesOf(r)) : MessagesOf(r)[i] = "Expired Signature"

\* The call has ended on the answer to a replay that was itself a 401.
ReplayAnswered401 ==
    /\ tpc = "done"
    /\ ExpiredCase(firstResponse)
    /\ phase = 2
    /\ resp.status = 401

C7_RetryUntilReachable ==
    /\ tpc = "sleep" => (retry_on_failure /\ sawUnreachable)
    /\ retry_on_failure => tOutcome # "ServerNotReachableError"
    /\ (~retry_on_failure /\ sawUnreachable /\ tpc = "done") =>
           (tOutcome = "ServerNotReachableError" /\ attempts = 1)
    /\ (sawUnreachable /\ tpc = "login" /\ phase = 1 /\ attempts >= 2) =>
           repeatCause = "unreachable"

\* C8: a read timeout makes execute_graphql raise ServerNotResponsiveError,
\* not ServerNotReachableError, and nothing is sent after it: no sleep, no new
\* attempt, no replay, also with retry_on_failure.
C8_TimeoutNeverRetried ==
    sawTimeout =>
        /\ tpc \in {"except", "done"}
        /\ tpc = "except" => exc.type = "ServerNotResponsiveError"
        /\ tpc = "done" => tOutcome = "ServerNotResponsiveError"

\* C8 witness: with retry_on_failure, a call that had already been retried
\* after an unreachable failure met a read timeout and has ended.
C8_Witness ==
    /\ sawTimeout
    /\ sawUnreachable
    /\ retry_on_failure
    /\ attempts = 2
    /\ tpc = "done"
    /\ tOutcome = "ServerNotResponsiveError"

\* The call has ended on a first answer that was a 401 or 403 outside the
\* expired-signature case.
Rejected ==
    /\ tpc = "done"
    /\ firstResponse.status \in {401, 403}
    /\ ~ExpiredCase(firstResponse)

C10_ServerErrorRaises ==
    /\ (raise_for_error /\ resp.status = 500 /\ tpc = "done") =>
           (tOutcome = "GraphQLError" /\ tErrors = MessagesOf(resp))
    /\ (raise_for_error /\ resp.status = 500) => tpc \notin {"login", "request", "wrapper"}

\* C11: within one execute_graphql call the request is sent again only after
\* an unreachable failure under retry_on_failure (a new iteration of the loop)
\* or as the single replay after an expired-signature 401 (a second send in
\* the iteration); an answer with status 500 never starts another attempt.
C11_ResentOnlyWhenUnreachableOrExpired ==
    /\ (tpc = "login" /\ phase = 1 /\ attempts >= 2) =>
           (retry_on_failure /\ repeatCause = "unreachable")
    /\ attemptSends >= 2 => (attemptSends = 2 /\ ExpiredCase(firstResponse))
    /\ repeatCause # "status"

\* C12: with raise_for_error=False an answer that carries an "errors" list
\* raises nothing: the call returns the payload to the caller.
C12_ErrorsSwallowedWhenNotRaising ==
    (~raise_for_error /\ tpc = "done" /\ resp # NoResponse /\ resp.body.hasErrors) =>
        tOutcome = "returned"

\* ======================================================================
\* Properties of the batch runner                              (SpecBatch)
\* ======================================================================

\* The position in `completed` of the first task that ended with an
\* exception (0 when there is none).
FirstException(done) ==
    IF \E k \in 1..Len(done) : done[k][2] = "exception"
    THEN CHOOSE k \in 1..Len(done) :
            /\ done[k][2] = "exception"
            /\ \A j \in 1..(k - 1) : done[j][2] = "ok"
    ELSE 0

\* C13: a batch asked to capture exceptions never raises out of execute() and,
\* once execute() is over, has yielded exactly one pair per added task, each
\* with the task's own result or exception; a batch asked not to capture them
\* yields successes only and ends with the first exception of its tasks, that
\* exception going to the caller of execute() and nothing being yielded after
\* it.
C13_PairPerTaskOrFirstExceptionRaised ==
    \A b \in BatchIds :
        LET B == batches[b] IN
        B.created =>
            /\ B.asked =>
                  /\ B.bpc # "raised"
                  /\ \A k \in 1..Len(B.yielded) : B.yielded[k] = B.completed[k]
                  /\ B.bpc = "finished" =>
                        /\ Len(B.yielded) = Len(B.tasks)
                        /\ \A i \in 1..Len(B.tasks) :
                              Cardinality({k \in 1..Len(B.yielded) : B.yielded[k][1] = i}) = 1
            /\ ~B.asked =>
                  /\ \A k \in 1..Len(B.yielded) :
                        B.yielded[k][2] = "ok" /\ B.yielded[k] = B.completed[k]
                  /\ B.bpc = "finished" => FirstException(B.completed) = 0
                  /\ B.bpc = "raised" =>
                        /\ FirstException(B.completed) > 0
                        /\ B.raised = <<B.completed[FirstException(B.completed)]>>
                        /\ Len(B.yielded) = FirstException(B.completed) - 1

\* C13 witness: one batch captured the exception of its second task, which
\* completed first, and went on to yield the first task; the other batch, not
\* capturing, ended with the exception of its task and yielded nothing.
C13_Witness ==
    /\ batches["b1"].asked /\ batches["b1"].bpc = "finished"
    /\ batches["b1"].yielded = << <<2, "exception">>, <<1, "ok">> >>
    /\ ~batches["b2"].asked /\ batches["b2"].created /\ batches["b2"].bpc = "raised"
    /\ batches["b2"].raised = << <<1, "exception">> >>
    /\ batches["b2"].yielded = <<>>

\* The tasks of all batches of the client that hold a permit.
InFlight == {<<b, i>> \in BatchIds \X (1..MaxTasks) :
                i <= Len(batches[b].tasks) /\ batches[b].tasks[i] = "running"}

\* C14: the number of batch tasks in flight never exceeds
\* max_concurrent_execution, counted over all batches of the client.
C14_InFlightWithinLimit ==
    Cardinality(InFlight) <= max_concurrent_execution

\* C14 witness: the limit is reached by tasks of two different batches while
\* a third task waits for a permit.
C14_Witness ==
    /\ Cardinality(InFlight) = max_concurrent_execution
    /\ \E i, j \in 1..MaxTasks : <<"b1", i>> \in InFlight /\ <<"b2", j>> \in InFlight
    /\ \E b \in BatchIds : \E i \in 1..Len(batches[b].tasks) : batches[b].tasks[i] = "waiting"

\* C15: create_batch() on the synchronous client raises NotImplementedError
\* for every value of return_exceptions and hands out no batch.
C15_SyncCreateBatchNotImplemented ==
    syncCalls # "none" => (syncOutcome = "NotImplementedError" /\ syncBatches = {})

\* C15 witness: the synchronous client's create_batch was called with
\* return_exceptions=True and raised.
C15_Witness ==
    /\ syncCalls = "return_exceptions=True"
    /\ syncOutcome = "NotImplementedError"

\* ======================================================================
\* Properties of the node store                                (SpecStore)
\* ======================================================================

\* filters(populate_store=True) has returned.
Populated == callName = "filters" /\ populate_store /\ qpc = "done" /\ qOutcome = "returned"

\* The non-empty ids the server gave as primary nodes, and as related nodes.
PrimaryIds == {srvItems[i] : i \in 1..Len(srvItems)} \ {0}
RelatedIds ==
    IF prefetch_relationships THEN {srvPeers[i] : i \in 1..Len(srvPeers)} \ {-1, 0} ELSE {}

\* C16: after filters() with populate_store=True the store holds exactly one
\* entry per distinct non-empty id among the primary and the related nodes
\* and none under the empty id; an id written as primary and as related holds
\* the related node, written last, unmerged; an id written only as primary
\* holds that primary node; the entries of other ids are those the store held
\* before the call.
C16_OneEntryPerIdLastWriteWins ==
    /\ \A e \in store : e.key # 0 /\ e.node.id = e.key
    /\ \A e, f \in store : e.key = f.key => e = f
    /\ Populated =>
          /\ \A id \in PrimaryIds \cup RelatedIds :
                Cardinality({e \in store : e.key = id}) = 1
          /\ \A e \in store :
                /\ e.key \in RelatedIds =>
                      e.node = [id |-> e.key, hydrated |-> TRUE, via |-> "peer"]
                /\ e.key \in PrimaryIds \ RelatedIds =>
                      e.node = [id |-> e.key, hydrated |-> TRUE, via |-> "edge"]
                /\ e.key \notin PrimaryIds \cup RelatedIds => e \in storeAtCall
          /\ \A e \in storeAtCall : e.key \notin PrimaryIds \cup RelatedIds => e \in store

\* C16 witness: id 1 came both as a primary and as a related node, next to a
\* primary node with the empty id, in a store that held id 1 as a primary node
\* and id 3 from an earlier call; the store now holds 1 as the related node.
C16_Witness ==
    /\ Populated
    /\ 1 \in PrimaryIds /\ 1 \in RelatedIds
    /\ \E i \in 1..Len(srvItems) : srvItems[i] = 0
    /\ \E e \in storeAtCall : e.key = 1 /\ e.node.via = "edge"
    /\ \E e \in storeAtCall : e.key = 3
    /\ 3 \notin RelatedIds
    /\ \E e \in store : e.key = 1 /\ e.node.via = "peer"
    /\ Cardinality(store) = 2

\* ======================================================================
\* Properties of the object loader                            (SpecLoader)
\* ======================================================================

\* The record the running create_node was given lacks a key the schema it
\* was given marks mandatory.
ParentLacksMandatory ==
    \/ lschema.nameMandatory /\ ~ldata.hasName
    \/ lschema.relMandatory /\ ldata.rel.shape = "absent"

ChildLacksMandatory(c) ==
    \/ lpeer.nameMandatory /\ ~c.hasName
    \/ lpeer.reverseMandatory /\ ~c.namesParent

NetworkCalls == Len(creates) + peerSchemaGets

\* C17: a create_node whose record lacks a mandatory attribute or relationship
\* key makes no network call: it ends with the validation error, no node of
\* that record is created and no save of it is attempted.
C17_MandatoryMissingNoNetworkCall ==
    /\ (lpc # "idle" /\ frame = "parent" /\ ParentLacksMandatory) =>
          /\ NetworkCalls = 0
          /\ lpc \in {"local", "done"}
          /\ lpc = "done" => (lOutcome = "ValueError" /\ lError = "mandatory")
    /\ (frame = "child" /\ ChildLacksMandatory(ldata.rel.items[childIdx])) =>
          /\ NetworkCalls = callsAtEntry
          /\ Len(creates) = childIdx
          /\ lpc \in {"local", "done"}
          /\ lpc = "done" => (lOutcome = "ValueError" /\ lError = "mandatory")

\* C17 witness: the second nested record lacks only the mandatory reverse
\* relationship; its create_node has raised, with the parent and the first
\* nested record saved before it and nothing sent since.
C17_Witness ==
    /\ frame = "child" /\ childIdx = 2 /\ lpc = "done"
    /\ ldata.rel.items[2].hasName /\ ~ldata.rel.items[2].namesParent
    /\ lpeer.reverseMandatory
    /\ lOutcome = "ValueError"
    /\ Len(creates) = 2

\* A valid record with one nested many-cardinality relationship whose items
\* do not name the reverse link, on schemas that have the reverse link.
ValidNestedMany ==
    /\ ~ParentLacksMandatory
    /\ lschema.cardinality = "many" /\ lschema.identifier
    /\ ldata.rel.shape = "data_list"
    /\ lpeer.hasReverse
    /\ \A k \in 1..Len(ldata.rel.items) :
          ~ldata.rel.items[k].namesParent /\ ~ChildLacksMandatory(ldata.rel.items[k])

\* C18: a valid record with one nested many-cardinality relationship of n
\* items that do not name the reverse link: the load returns after exactly
\* n + 1 saves, the parent first, then the n items in order, each item's
\* payload carrying the reverse link set to the id of the saved parent.
C18_ParentThenChildrenLinked ==
    (ValidNestedMany /\ lpc # "idle") =>
        /\ Len(creates) <= Len(ldata.rel.items) + 1
        /\ \A k \in 1..Len(creates) :
              IF k = 1 THEN creates[k].kind = "parent"
              ELSE /\ creates[k].kind = "child"
                   /\ creates[k].parent = parentNodeId
                   /\ parentNodeId \in {"id1", "id2"}
                   /\ creates[k].name = IF ldata.rel.items[k - 1].hasName THEN "value"
                                        ELSE "absent"
        /\ (lpc = "done" /\ lOutcome # "raised") =>
              (lOutcome = "returned" /\ Len(creates) = Len(ldata.rel.items) + 1)

\* C18 witness: two nested items, three saves, the load has returned.
C18_Witness ==
    /\ ValidNestedMany
    /\ Len(ldata.rel.items) = 2
    /\ ldata.rel.items[1].hasName /\ ~ldata.rel.items[2].hasName
    /\ lpc = "done" /\ lOutcome = "returned"
    /\ Len(creates) = 3
    /\ creates[3].parent = "id2"

\* The record holds an invalid value: a mandatory key is missing, its
\* relationship has no identifier to resolve, or the value of the relationship
\* does not fit the relationship's cardinality.
ParentRecordInvalid ==
    \/ ParentLacksMandatory
    \/ ldata.rel.shape = "dict_nodata"
    \/ ldata.rel.shape \in {"data_str", "data_dict", "data_list"} /\ ~lschema.identifier
    \/ ldata.rel.shape = "data_str"
    \/ ldata.rel.shape = "data_dict" /\ lschema.cardinality = "many"
    \/ ldata.rel.shape = "data_list" /\ lschema.cardinality = "one"
    \/ ldata.rel.shape = "str" /\ lschema.cardinality = "many"
    \/ ldata.rel.shape = "int"

\* C19: every input-validation failure ends the load with the validation
\* error, and the record that holds the invalid value is never sent.
C19_InvalidRecordNeverSent ==
    (lpc # "idle" /\ ParentRecordInvalid) =>
        /\ creates = <<>>
        /\ (lpc = "done" /\ lOutcome # "raised") => lOutcome = "ValueError"

\* ======================================================================
\* Properties of the diff summary                               (SpecDiff)
\* ======================================================================

\* The number of attribute elements at the head of the computed elements.
AttributeCount == IF node_dict.hasAttributes THEN Len(node_dict.attributes) ELSE 0

\* A count as it must appear in a summary: 0 for a missing count.
CountOf(v) == IF v = -1 THEN 0 ELSE v

\* The peers of the computed element e mirror the sub-list es: one peer per
\* entry, in order, with the entry's status and counts.
PeersMirror(e, es) ==
    /\ Len(e.peers) = Len(es)
    /\ \A i \in 1..Len(es) :
          /\ e.peers[i].action = (IF es[i].status = "<None>" THEN "None" ELSE es[i].status)
          /\ e.peers[i].summary.added = CountOf(es[i].counts.num_added)
          /\ e.peers[i].summary.removed = CountOf(es[i].counts.num_removed)
          /\ e.peers[i].summary.updated = CountOf(es[i].counts.num_updated)

\* C20 (as claimed): an element has a peers key if and only if it is a
\* RELATIONSHIP_MANY element; a RELATIONSHIP_MANY element always has a peers
\* list that mirrors its elements sub-list.
C20_PeersIffRelationshipMany ==
    dpc = "done" =>
        \A k \in 1..Len(node_diff) :
            /\ ("peers" \in DOMAIN node_diff[k]) <=>
                  (node_diff[k].element_type = "RELATIONSHIP_MANY")
            /\ node_diff[k].element_type = "RELATIONSHIP_MANY" =>
                  /\ "peers" \in DOMAIN node_diff[k]
                  /\ PeersMirror(node_diff[k], node_dict.relationships[k - AttributeCount].elements)

\* C20 (amended): an element has a peers key if and only if it is a
\* RELATIONSHIP_MANY element whose entry in the response has an "elements"
\* key; a RELATIONSHIP_ONE element (cardinality "one" in any case) never has
\* peers, also when the response lists sub-elements for it; an attribute
\* never has; the peers of a RELATIONSHIP_MANY element with an "elements"
\* key mirror that sub-list one for one, in order, with each entry's status
\* and counts (a missing count being 0, a missing status "None").
C20_PeersIffManyWithElements ==
    dpc = "done" =>
        /\ Len(node_diff) = AttributeCount
              + (IF node_dict.hasRelationships THEN Len(node_dict.relationships) ELSE 0)
        /\ \A k \in 1..Len(node_diff) :
              IF k <= AttributeCount
              THEN /\ node_diff[k].element_type = "ATTRIBUTE"
                   /\ "peers" \notin DOMAIN node_diff[k]
              ELSE LET r == node_dict.relationships[k - AttributeCount]
                       e == node_diff[k]
                   IN  /\ e.element_type = IF r.cardinality \in {"ONE", "one"}
                                           THEN "RELATIONSHIP_ONE" ELSE "RELATIONSHIP_MANY"
                       /\ ("peers" \in DOMAIN e) <=>
                             (e.element_type = "RELATIONSHIP_MANY" /\ r.hasElements)
                       /\ "peers" \in DOMAIN e => PeersMirror(e, r.elements)

\* C20 witness: after an attribute, a relationship of cardinality MANY with
\* two sub-elements, the second without status and without an added count,
\* has been converted to an element with two peers.
C20_Witness ==
    /\ dpc = "done"
    /\ AttributeCount = 1
    /\ Len(node_diff) = 2
    /\ node_diff[2].element_type = "RELATIONSHIP_MANY"
    /\ node_dict.relationships[1].cardinality = "MANY"
    /\ Len(node_dict.relationships[1].elements) = 2
    /\ node_dict.relationships[1].elements[1].status = "ADDED"
    /\ node_dict.relationships[1].elements[2].status = "<None>"
    /\ node_dict.relationships[1].elements[2].counts.num_added = -1
    /\ "peers" \in DOMAIN node_diff[2]
    /\ node_diff[2].peers[2].action = "None"

\* ======================================================================
\* Properties of the two clients side by side                   (SpecTwin)
\* ======================================================================

\* C21: given the same configuration, the same calls (execute_graphql, login,
\* filters, get) and the same answers and failures of the server, the
\* synchronous and the asynchronous client are in the same state after every
\* step: the same request was sent last and as many were sent, the same
\* tokens, Authorization header and store are held, and a finished call has
\* the same result or error.
C21_SyncAndAsyncBehaveAlike == aclient = sclient

\* Both clients have filled their store, and have finished an execute_graphql
\* in which the request was replayed after a re-login and then answered.
C21_Witness ==
    /\ aclient.pc = "done" /\ sclient.pc = "done"
    /\ aclient.call = "execute_graphql"
    /\ aclient.phase = 2 /\ sclient.phase = 2
    /\ aclient.outcome = "returned" /\ sclient.outcome = "returned"
    /\ sclient.access_token # NoToken
    /\ sclient.sent = [to |-> "graphql", auth |-> sclient.access_token,
                       key |-> sclient.x_infrahub_key]
    /\ sclient.store # {}

\* ======================================================================
\* Properties of infrahubctl transform                            (SpecCtl)
\* ======================================================================

\* The run has ended, and the repository configuration could be read.
CtlExited == cpc = "exited" /\ cmd.config = "ok"

\* The transform could not be set up: it is not in the configuration, its
\* file or class could not be loaded, or its query was neither answered by
\* the server nor readable from the repository.
TransformUnavailable ==
    \/ ~cmd.inConfig
    \/ cmd.load # "ok"
    \/ (cmd.stored # "ok" /\ cmd.localQuery # "ok")

C23_ExplicitWindowSentAsGiven ==
    (callName \in {"filters", "all"} /\ (offset # None \/ limit # None)) =>
        /\ Len(queries) <= 1
        /\ Len(queries) = 1 =>
              /\ offset # None => queries[1][1] = offset
              /\ limit # None => queries[1][2] = limit

\* C29: filters() leaves the store as it was before the call while pages are
\* being fetched, when populate_store is false and when a page fetch or the
\* hydration of a page raised; the store differs from the one before the call
\* only once filters(populate_store=True) has fetched its last page and
\* returned.
C29_StoreWrittenOnlyAtReturn ==
    (callName = "filters" /\ qpc # "idle") =>
        /\ qpc # "done" => store = storeAtCall
        /\ (qpc = "done" /\ (~populate_store \/ qOutcome = "raised")) => store = storeAtCall
        /\ store # storeAtCall =>
              (populate_store /\ qOutcome = "returned" /\ ~has_remaining_items)

\* C29 witness: filters(populate_store=True) raised on a later page, having
\* hydrated a node the store does not hold; the store, not empty, is as before.
C29_Witness ==
    /\ callName = "filters" /\ populate_store
    /\ qpc = "done" /\ qOutcome = "raised"
    /\ Len(pages) >= 1 /\ Len(nodes) >= 1
    /\ \E i \in 1..Len(nodes) : nodes[i].id # EmptyId /\ \A e \in store : e.key # nodes[i].id
    /\ store # {} /\ store = storeAtCall


\* ----------------------------------------------------------------------
\* Re-login, tokens and the Authorization header (InfrahubClient and
\* InfrahubClientSync side by side)
\* ----------------------------------------------------------------------

\* The two clients.
BothClients == {aclient, sclient}

\* c is running execute_graphql().
InExecuteGraphql(c) == c.call = "execute_graphql" /\ c.pc # "idle"

\* C24 (as claimed): within one execute_graphql call, retries after
\* unreachable failures included, at most one re-login is attempted and the
\* request is replayed at most once on account of an expired signature.
C24_OneReloginPerCall ==
    \A c \in BothClients : InExecuteGraphql(c) => (c.relogins <= 1 /\ c.replays <= 1)

\* C24 (amended): within one attempt of an execute_graphql call (one call of
\* _post from the loop) at most one re-login is attempted and the request is
\* replayed at most once, and only after a re-login; over the whole call there
\* is at most one re-login and one replay per attempt, so that a call which
\* attempts the request again (retry_on_failure) may log in again and replay
\* again in each attempt, while a call without retry_on_failure makes at most
\* one re-login and one replay.
C24_OneReloginPerAttempt ==
    \A c \in BothClients :
        InExecuteGraphql(c) =>
            /\ c.attemptRelogins <= 1
            /\ c.attemptReplays <= c.attemptRelogins
            /\ c.relogins <= c.attempts
            /\ c.replays <= c.relogins
            /\ ~retry_on_failure => (c.relogins <= 1 /\ c.replays <= 1)

\* C24 witness: a call that ended after two attempts, each with its own
\* re-login and its own replay.
C24_Witness ==
    /\ InExecuteGraphql(aclient)
    /\ aclient.pc = "done"
    /\ password_authentication
    /\ retry_on_failure
    /\ aclient.attempts = 2
    /\ aclient.relogins = 2
    /\ aclient.replays = 2
    /\ aclient.attemptRelogins = 1
    /\ aclient.attemptReplays = 1

\* c is about to send a request to /api/auth/refresh or /api/auth/login.
AboutToExchange(c) == c.pc \in {"refresh_login", "full_login"}

\* C25 for one client.
LoginOnlyWhenNeeded(c) ==
    /\ (password_authentication /\ c.sent.to = "graphql") =>
           (c.access_token # NoToken /\ c.refresh_token # NoToken)
    /\ (InExecuteGraphql(c) /\ AboutToExchange(c)) =>
           /\ password_authentication
           /\ \/ c.access_token = NoToken
              \/ (c.refresh /\ c.attemptRelogins = 1 /\ c.phase = 1
                  /\ AsyncIsExpiredSignature(c.response))
    /\ ~password_authentication =>
           /\ ~AboutToExchange(c)
           /\ c.sent.to \notin {"login", "refresh"}
           /\ c.sent.auth = NoToken
           /\ c.access_token = NoToken /\ c.refresh_token = NoToken
           /\ c.sent.to = "graphql" => c.sent.key = c.x_infrahub_key

\* C25: with password authentication no GraphQL request is sent before a
\* login exchange has given the client its tokens, and during execute_graphql
\* a login or refresh request is sent only when the client holds no access
\* token or the request was just answered by an expired-signature 401;
\* without password authentication no login or refresh request is ever sent,
\* the client holds no token, and its requests carry no bearer token, only
\* the API key of the configuration.
C25_LoginOnlyWhenNeeded == \A c \in BothClients : LoginOnlyWhenNeeded(c)

\* C25 witness: under password authentication the second attempt of a call
\* is about to send its request with the token the client already holds,
\* without a login in between.
C25_Witness ==
    /\ password_authentication
    /\ InExecuteGraphql(aclient)
    /\ aclient.pc = "request"
    /\ aclient.attempts = 2
    /\ aclient.phase = 1
    /\ aclient.relogins = 0
    /\ aclient.access_token # NoToken
    /\ aclient.x_infrahub_key = ""

\* C27: under password authentication every GraphQL request carries the
\* access token the client holds at that time, which is the one of the last
\* successful login or refresh; so does the request sent again after a
\* re-login.
C27_BearerIsLatestToken ==
    \A c \in BothClients :
        (password_authentication /\ c.sent.to = "graphql") =>
            /\ c.access_token # NoToken
            /\ c.sent.auth = c.access_token
            /\ c.authorization = c.access_token

\* C27 witness: the request was sent again after a re-login, with the token
\* the client holds now.
C27_Witness ==
    /\ password_authentication
    /\ InExecuteGraphql(aclient)
    /\ aclient.phase = 2
    /\ aclient.attemptRelogins = 1
    /\ aclient.attemptReplays = 1
    /\ aclient.pc = "returned"
    /\ aclient.sent = [to |-> "graphql", auth |-> aclient.access_token,
                       key |-> aclient.x_infrahub_key]
    /\ aclient.access_token = "t2"

\* The user's login(refresh=True), begun with a refresh token, has ended.
RefreshLoginEnded(c) ==
    /\ c.call = "login"
    /\ c.pc = "done"
    /\ c.refresh
    /\ password_authentication
    /\ c.held.refresh # NoToken

\* C28 for one client.
RefreshThenLoginOrError(c) ==
    RefreshLoginEnded(c) =>
        /\ IsSuccess(c.refreshAnswer.status) =>
               /\ c.outcome = "returned"
               /\ c.sent.to = "refresh"
               /\ c.access_token = c.granted.access
               /\ c.refresh_token = c.held.refresh
        /\ c.refreshAnswer.status = 401 =>
               /\ c.sent.to = "login"
               /\ c.outcome = "returned" =>
                      (c.access_token = c.granted.access /\ c.refresh_token = c.granted.refresh
                       /\ c.granted.refresh # NoToken)
        /\ c.refreshAnswer.status \in (Statuses \ {200, 401}) =>
               /\ c.outcome = "AuthenticationError"
               /\ c.sent.to = "refresh"
               /\ c.access_token = c.held.access
               /\ c.refresh_token = c.held.refresh

\* C28: login(refresh=True) with a refresh token: a refresh that succeeds
\* changes the access token only and no login request is sent; a refresh
\* answered 401 is followed by the username/password login, which replaces
\* both tokens; a refresh answered by another error status raises
\* AuthenticationError, no login request is sent and both tokens are kept.
C28_RefreshThenLoginOrError == \A c \in BothClients : RefreshThenLoginOrError(c)


\* ----------------------------------------------------------------------
\* The object loader: the payload of the create call and the order of saves
\* ----------------------------------------------------------------------

\* The values a record can have under its relationship that are bare
\* scalars: a string or an integer.
ScalarShapes == {"str", "int"}

\* The values that are a {data: ...} structure.
DataShapes == {"data_str", "data_dict", "data_list"}

\* C26: the payload of the create call of a top-level record has the
\* attribute with its value, the relationship under its own list when the
\* value is a list, under a one-element list when the relationship has
\* cardinality one and the value is a bare scalar, and not at all when the
\* value is a {data: ...} structure; it has nothing else.
C26_PayloadPartition ==
    (lpc # "idle" /\ Len(creates) >= 1) =>
        /\ creates[1].kind = "parent"
        /\ creates[1].name = (IF ldata.hasName THEN "value" ELSE "absent")
        /\ creates[1].parent = "absent"
        /\ ldata.rel.shape = "list" => creates[1].rel = "list"
        /\ (lschema.cardinality = "one" /\ ldata.rel.shape \in ScalarShapes) =>
               creates[1].rel = "wrapped"
        /\ ldata.rel.shape \in DataShapes => creates[1].rel = "absent"
        /\ creates[1].rel = "list" => ldata.rel.shape = "list"
        /\ creates[1].rel = "wrapped" =>
               (lschema.cardinality = "one" /\ ldata.rel.shape \in ScalarShapes)


\* The first n records of a file in the order of its text, which for nested
\* records is the depth-first order.
DeclarationOrder(n) == [k \in 1..n |-> k]

\* C30: the loader saves the node of a record before it calls create_node on
\* any record nested in it, and takes the records depth-first in the order
\* of the file; when a record fails validation or its save fails, the load
\* stops there: no later record is attempted, and every node saved before
\* (the ancestors and the earlier records) stays saved.
C30_DepthFirstStopsAtFailure ==
    /\ saved = DeclarationOrder(Len(saved))
    /\ attempted = DeclarationOrder(Len(attempted))
    /\ Len(attempted) <= Len(ofile)
    /\ Len(saved) <= Len(attempted) /\ Len(attempted) <= Len(saved) + 1
    /\ \A k \in 1..Len(attempted) :
          LET p == ParentOf(ofile, attempted[k])
          IN  p # 0 => \E j \in 1..Len(saved) : j < k /\ saved[j] = p
    /\ (opc = "done" /\ oOutcome = "returned") => saved = DeclarationOrder(Len(ofile))
    /\ (opc = "done" /\ oOutcome \in {"validation", "save"}) =>
           /\ attempted = DeclarationOrder(failedAt)
           /\ saved = DeclarationOrder(failedAt - 1)
    /\ (opc = "done" /\ oOutcome = "relationship") =>
           /\ attempted = DeclarationOrder(failedAt)
           /\ saved = DeclarationOrder(failedAt)
    /\ (opc = "done" /\ oOutcome = "file") => (attempted = <<>> /\ saved = <<>>)

\* C30 witness: a record with a nested record that has a nested record of
\* its own, followed by a second nested record; the innermost record failed
\* validation after its two ancestors were saved, and the last record was
\* never attempted.
C30_Witness ==
    /\ opc = "done"
    /\ ofile = <<0, 1, 2, 1>>
    /\ oOutcome = "validation"
    /\ failedAt = 3
    /\ saved = <<1, 2>>
    /\ attempted = <<1, 2, 3>>

====
